---- MODULE Spec2Model ----
(***************************************************************************)
(* Model of the state/filtering layer of the PHP extension build           *)
(* dashboard (src/src/composables/useStore.ts, useDataLoader.ts).          *)
(*                                                                         *)
(*   Spec           the Build Cache: interleavings of loadBuilds calls,    *)
(*                  each split at its await points (fetch, response.json,  *)
(*                  the 50 ms poll timer).                                 *)
(*   SpecLive       the same, with every fetch eventually completing and   *)
(*                  the poll timer firing.                                 *)
(*   SpecEngine     the Filter Engine: filterExtensions / filterBuilds     *)
(*                  applied to bounded filter states and view-model lists. *)
(*   SpecHeap       the same calls on arrays and objects held by           *)
(*                  reference: what filterExtensions creates and what it   *)
(*                  leaves alone.                                          *)
(*   SpecProjector  processExtensions and getStats on what latest.json     *)
(*                  may hold, from the arrival of the file.                *)
(*   SpecStore      the Filter State: setFilter (from the sidebar's        *)
(*                  checkboxes, the selects and the search box),           *)
(*                  clearFilters, setView, setSelectedExtension,           *)
(*                  initializeFilters, and the URL written by the queued   *)
(*                  job of the state watcher.                              *)
(*   SpecLoader     the Data Loader: overlapping initialize() calls, the   *)
(*                  time-limited cache of fetchJSON and the clock.         *)
(*   SpecView       App after setup: latest.json arrives, the watcher jobs *)
(*                  run, and the visible list is recomputed while          *)
(*                  loadBuilds calls succeed and fail.                     *)
(*   SpecDebounce   the search box: the debounced setFilter of App.vue,    *)
(*                  its timer, the clock and Clear All.                    *)
(*   SpecDebounceLive  the same with the event loop's fairness: queued     *)
(*                  jobs run, a due timer fires and time passes.           *)
(*   SpecSidebar    the sidebar's checkbox handlers in pages opened with   *)
(*                  bounded selections and catalogs.                       *)
(***************************************************************************)
EXTENDS Integers, Sequences, FiniteSets, TLC

VARIABLES
    \* ---- Build Cache (useStore.ts 25-29) ----
    buildCache,         \* Map<path, BuildResult[]>: a function on the cached paths
    loadingBuilds,      \* Set<path>: paths with a fetch pending
    buildCacheVersion,  \* reactivity counter
    \* ---- one loadBuilds invocation per call id ----
    callPc,             \* "idle" | "fetching" | "parsing" | "waiting" | "done"
    callPath,           \* the path argument ("none" while idle)
    callResult,         \* the value the returned promise resolved to
    callOutcome,        \* which branch the call took (history)
    \* ---- the network, as the fetch mock sees it ----
    inFlight,           \* per path: fetches issued and not yet settled
    fetchCount,         \* per path: fetches issued so far
    \* ---- Filter State (useStore.ts 4-23) ----
    filters,            \* state.filters
    totalOsCount, totalPhpCount, totalArchCount,
    filtersInitialized, \* module flag, line 5
    currentView,        \* state.currentView
    selectedExtension,  \* state.selectedExtension (null is <<>>)
    location,           \* window.location.search without its "?"
    jobs,               \* watcher jobs queued and not yet run: "url" (useStore.ts
                        \* 76-80), "builds" (App.vue 59-72), "metadata" (75-83)
    \* ---- Filter Engine call under observation ----
    extensions,         \* the ProcessedExtension[] argument
    engineRet,          \* the last call under observation and what it returned
    heap,               \* the objects of the engine call: the arrays and objects
                        \* created so far and who holds them (SpecHeap only)
    \* ---- Data Loader (useDataLoader.ts) ----
    cache,              \* Map<path, {data, timestamp}>
    now,                \* Date.now(), in ms since the page was opened
    metadata, latest,   \* the refs of the useDataLoader() instance
    loading, error,
    initPc,             \* per initialize() call: "idle" | "awaiting" | "loaded" | "caught"
    fetchPc,            \* per call and resource: "idle" | "fetching" (await fetch,
                        \* line 13) | "parsing" (await response.json(), line 17) |
                        \* "done" | "failed"
    fetchData,          \* per call and resource: what its fetchJSON resolved to
    netCount,           \* per resource: network fetches issued so far
    \* ---- the debounced setFilter of App.vue 54-57 (useDebounce.ts) ----
    timeout,            \* the pending timer: its arguments and when it is due
    wrapperCall,        \* the most recent call of the wrapper (history)
    fnCalls             \* the invocations of the wrapped function (history)

cacheVars  == <<buildCache, loadingBuilds, buildCacheVersion, callPc, callPath,
                callResult, callOutcome, inFlight, fetchCount>>
filterVars == <<filters, totalOsCount, totalPhpCount, totalArchCount,
                filtersInitialized, currentView, selectedExtension, location,
                jobs>>
engineVars == <<extensions, engineRet, heap>>
loaderVars == <<cache, now, metadata, latest, loading, error, initPc, fetchPc,
                fetchData, netCount>>
debounceVars == <<timeout, wrapperCall, fnCalls>>
vars       == <<cacheVars, filterVars, engineVars, loaderVars, debounceVars>>

(***************************************************************************)
(* Bounds                                                                  *)
(***************************************************************************)
MaxCalls  == 3      \* loadBuilds invocations in one session
MaxBuilds == 2      \* length of the enumerated build lists

Calls == 1..MaxCalls
Paths == {"redis/6.0.0.json", "apcu/5.1.23.json"}

(* The fetch mock answers a path with one of these record lists; builds  *)
(* are told apart by workflow_run_id alone in the Build Cache part.        *)
Responses == {<<>>, <<[workflow_run_id |-> 1]>>,
              <<[workflow_run_id |-> 1], [workflow_run_id |-> 2]>>}

(***************************************************************************)
(* Build Cache: loadBuilds (useStore.ts 106-132)                           *)
(***************************************************************************)
PathCount == [p \in Paths |-> 0]

\* buildCache.value.has(path), line 107
CachedIgnored(p) == FALSE
Cached(p) == p \in DOMAIN buildCache

\* loadingBuilds.value.has(path), lines 111 and 113
PendingIgnored(p) == FALSE
PendingForever(p) == TRUE
Pending(p) == p \in loadingBuilds

\* buildCache.value.get(path) || [], line 116 (an array is truthy, also when empty)
PollResultEmpty(p) == <<>>
PollResult(p) == IF p \in DOMAIN buildCache THEN buildCache[p] ELSE <<>>

\* buildCache.value.set(path, builds), line 124
CacheSet(p, builds) == [q \in DOMAIN buildCache \cup {p} |->
                          IF q = p THEN builds ELSE buildCache[q]]

\* The call settles: its promise resolves to r
Settle(c, r, how) ==
    /\ callPc' = [callPc EXCEPT ![c] = "done"]
    /\ callResult' = [callResult EXCEPT ![c] = r]
    /\ callOutcome' = [callOutcome EXCEPT ![c] = how]

\* The synchronous prefix of loadBuilds(path), lines 107-121, up to its first await
LoadBuildsCall(c, p) ==
    /\ callPc[c] = "idle"
    /\ callPath' = [callPath EXCEPT ![c] = p]
    /\ IF Cached(p)
         THEN /\ Settle(c, buildCache[p], "hit")
              /\ UNCHANGED <<buildCache, loadingBuilds, buildCacheVersion,
                             inFlight, fetchCount>>
         ELSE IF Pending(p)
         THEN /\ callPc' = [callPc EXCEPT ![c] = "waiting"]
              /\ callOutcome' = [callOutcome EXCEPT ![c] = "waited"]
              /\ UNCHANGED <<buildCache, loadingBuilds, buildCacheVersion,
                             callResult, inFlight, fetchCount>>
         ELSE /\ loadingBuilds' = loadingBuilds \cup {p}
              /\ inFlight' = [inFlight EXCEPT ![p] = @ + 1]
              /\ fetchCount' = [fetchCount EXCEPT ![p] = @ + 1]
              /\ callPc' = [callPc EXCEPT ![c] = "fetching"]
              /\ UNCHANGED <<buildCache, buildCacheVersion, callResult, callOutcome>>
    /\ UNCHANGED <<filterVars, engineVars, loaderVars, debounceVars>>

\* The 50 ms timer of a waiting call fires, lines 113-116
PollTimer(c) ==
    /\ callPc[c] = "waiting"
    /\ IF Pending(callPath[c])
         THEN UNCHANGED <<callPc, callResult, callOutcome>>
         ELSE Settle(c, PollResult(callPath[c]), "waited")
    /\ UNCHANGED <<buildCache, loadingBuilds, buildCacheVersion, callPath,
                   inFlight, fetchCount, filterVars, engineVars, loaderVars, debounceVars>>

\* catch { return [] } finally { loadingBuilds.delete(path) }, lines 127-131
FailKeepsPending(c, why) ==
    /\ Settle(c, <<>>, why)
    /\ inFlight' = [inFlight EXCEPT ![callPath[c]] = @ - 1]
    /\ UNCHANGED <<buildCache, loadingBuilds, buildCacheVersion, callPath,
                   fetchCount, filterVars, engineVars, loaderVars, debounceVars>>
Fail(c, why) ==
    /\ Settle(c, <<>>, why)
    /\ loadingBuilds' = loadingBuilds \ {callPath[c]}
    /\ inFlight' = [inFlight EXCEPT ![callPath[c]] = @ - 1]
    /\ UNCHANGED <<buildCache, buildCacheVersion, callPath, fetchCount,
                   filterVars, engineVars, loaderVars, debounceVars>>

\* fetch() rejects (network error), line 121
FetchRejects(c) ==
    /\ callPc[c] = "fetching"
    /\ Fail(c, "network_error")

\* fetch() resolves with !response.ok, line 122
FetchRespondsNotOk(c) ==
    /\ callPc[c] = "fetching"
    /\ Fail(c, "not_ok")

\* fetch() resolves with response.ok; the call awaits response.json(), line 123
FetchRespondsOk(c) ==
    /\ callPc[c] = "fetching"
    /\ callPc' = [callPc EXCEPT ![c] = "parsing"]
    /\ UNCHANGED <<buildCache, loadingBuilds, buildCacheVersion, callPath,
                   callResult, callOutcome, inFlight, fetchCount,
                   filterVars, engineVars, loaderVars, debounceVars>>

\* response.json() rejects (malformed body), line 123
JsonRejects(c) ==
    /\ callPc[c] = "parsing"
    /\ Fail(c, "bad_json")

\* response.json() resolves, lines 123-126 and 129-131
JsonResolves(c, builds) ==
    /\ callPc[c] = "parsing"
    /\ buildCache' = CacheSet(callPath[c], builds)
    /\ buildCacheVersion' = buildCacheVersion + 1
    /\ Settle(c, builds, "fetched")
    /\ loadingBuilds' = loadingBuilds \ {callPath[c]}
    /\ inFlight' = [inFlight EXCEPT ![callPath[c]] = @ - 1]
    /\ UNCHANGED <<callPath, fetchCount, filterVars, engineVars, loaderVars, debounceVars>>

FailedOutcomes == {"network_error", "not_ok", "bad_json"}

(***************************************************************************)
(* Strings that the code takes apart (extension names, the search text)    *)
(* are sequences of one-character strings, so that toLowerCase and         *)
(* includes are computed and not assumed.                                  *)
(***************************************************************************)
UpperCase == <<"A", "B", "C", "D", "E", "F", "G", "H", "I", "J", "K", "L", "M",
               "N", "O", "P", "Q", "R", "S", "T", "U", "V", "W", "X", "Y", "Z">>
LowerCase == <<"a", "b", "c", "d", "e", "f", "g", "h", "i", "j", "k", "l", "m",
               "n", "o", "p", "q", "r", "s", "t", "u", "v", "w", "x", "y", "z">>

\* String.prototype.toLowerCase, line 197
ToLowerCase(str) ==
    [i \in 1..Len(str) |->
        IF \E k \in 1..Len(UpperCase) : UpperCase[k] = str[i]
        THEN LowerCase[CHOOSE k \in 1..Len(UpperCase) : UpperCase[k] = str[i]]
        ELSE str[i]]

\* String.prototype.includes, line 197
StrIncludes(str, sub) ==
    \E i \in 0..(Len(str) - Len(sub)) : SubSeq(str, i + 1, i + Len(sub)) = sub

\* Array.prototype.includes, lines 155, 162, 169, 201
Includes(arr, x) == \E i \in 1..Len(arr) : arr[i] = x

(***************************************************************************)
(* Math.round((pass / total) * 100), lines 144, 231, 248, in IEEE-754      *)
(* double precision.  A double is a significand, held as base-2^13 digits  *)
(* (most significant first), times 2^e.  Holds for 0 < p, t < 2^17.        *)
(***************************************************************************)
LimbBase == 2^13

\* scale p/t into [1, 2) and keep the binary exponent
RECURSIVE Normalize(_, _, _)
Normalize(p, t, e) ==
    IF p < t THEN Normalize(2 * p, t, e - 1)
    ELSE IF p >= 2 * t THEN Normalize(p, 2 * t, e + 1)
    ELSE [p |-> p, t |-> t, e |-> e]

\* n further base-2^13 digits of r/t, and the remainder left
RECURSIVE LongDiv(_, _, _)
LongDiv(r, t, n) ==
    IF n = 0 THEN [digits |-> <<>>, rem |-> r]
    ELSE LET rest == LongDiv((r * LimbBase) % t, t, n - 1)
         IN [digits |-> <<(r * LimbBase) \div t>> \o rest.digits, rem |-> rest.rem]

RECURSIVE AddLow(_, _)
AddLow(L, inc) ==
    IF Len(L) = 1 THEN <<L[1] + inc>>
    ELSE LET v == L[Len(L)] + inc
         IN Append(AddLow(SubSeq(L, 1, Len(L) - 1), v \div LimbBase), v % LimbBase)

RECURSIVE MulLimbs(_, _, _)
MulLimbs(L, k, carry) ==
    IF Len(L) = 1 THEN <<L[1] * k + carry>>
    ELSE LET v == L[Len(L)] * k + carry
         IN Append(MulLimbs(SubSeq(L, 1, Len(L) - 1), k, v \div LimbBase), v % LimbBase)

RECURSIVE BitLen(_)
BitLen(n) == IF n = 0 THEN 0 ELSE 1 + BitLen(n \div 2)

RECURSIVE NatOfLimbs(_)
NatOfLimbs(L) == IF L = <<>> THEN 0
                 ELSE NatOfLimbs(SubSeq(L, 1, Len(L) - 1)) * LimbBase + L[Len(L)]

\* Round the digit string L (first digit non-zero, four 13-bit digits after
\* it) to 53 significant bits, ties to even; restAbove / restAt say whether
\* what lies beyond L is more than / exactly half a unit of L's last place.
RoundTo53(L, restAbove, restAt) ==
    LET d       == BitLen(L[1]) - 1
        low     == L[Len(L)]
        unit    == 2^d
        dropped == low % unit
        kept    == [L EXCEPT ![Len(L)] = low - dropped]
        odd     == (low \div unit) % 2 = 1
        up      == IF d = 0 THEN restAbove \/ (restAt /\ odd)
                   ELSE \/ 2 * dropped > unit
                        \/ 2 * dropped = unit /\ (restAbove \/ restAt \/ odd)
    IN IF up THEN AddLow(kept, unit) ELSE kept

Float64Zero == [m |-> <<0>>, e |-> 0]

\* the double nearest to p / t
Float64Div(p, t) ==
    IF p = 0 THEN Float64Zero
    ELSE LET n == Normalize(p, t, 0)
             q == LongDiv(n.p - n.t, n.t, 4)
         IN [m |-> RoundTo53(<<1>> \o q.digits, 2 * q.rem > n.t, 2 * q.rem = n.t),
             e |-> n.e - 52]

\* the double nearest to x * k
Float64MulNat(x, k) ==
    IF x = Float64Zero THEN Float64Zero
    ELSE [m |-> RoundTo53(MulLimbs(x.m, k, 0), FALSE, FALSE), e |-> x.e]

\* floor(L / 2^n)
ShiftRight(L, n) ==
    IF n \div 13 >= Len(L) THEN 0
    ELSE NatOfLimbs(SubSeq(L, 1, Len(L) - (n \div 13))) \div 2^(n % 13)

\* Math.round: the nearest integer, a tie going up
MathRound(x) ==
    IF x = Float64Zero THEN 0
    ELSE (ShiftRight(x.m, (0 - x.e) - 1) + 1) \div 2

\* total > 0 ? Math.round((pass / total) * 100) : 0, lines 144, 231
SuccessRate(pass, total) ==
    IF total > 0 THEN MathRound(Float64MulNat(Float64Div(pass, total), 100)) ELSE 0

(***************************************************************************)
(* Values that may be null or undefined are held in a sequence of at most  *)
(* one element, since a string or a number cannot be compared with a       *)
(* marker of another kind: <<>> holds null / undefined, <<v>> holds the    *)
(* value v, and readers take v out as x[1].  Some(v) is the holder of v,   *)
(* not v.                                                                  *)
(***************************************************************************)
Undefined == <<>>
Some(v) == <<v>>

\* heap where the objects of the engine call are not followed
NoHeap == [cells |-> <<>>, cache |-> <<>>, extensions |-> 0, lists |-> 0,
           results |-> <<>>]

\* engineRet before any engine call
NoCall == [op |-> "none", arg |-> <<>>, out |-> <<>>]

(***************************************************************************)
(* Extension Projector: processExtensions (useStore.ts 134-148)            *)
(***************************************************************************)
\* buildCache.value.get(data.path), line 146
CacheGet(path) == IF path \in DOMAIN buildCache THEN Some(buildCache[path]) ELSE Undefined

\* the map callback, lines 137-147
ProcessEntry(entry) ==
    [name        |-> entry.name,
     version     |-> entry.data.version,
     updated_at  |-> entry.data.updated_at,
     pass        |-> entry.data.pass,
     fail        |-> entry.data.fail,
     total       |-> entry.data.total,
     successRate |-> SuccessRate(entry.data.pass, entry.data.total),
     path        |-> entry.data.path,
     builds      |-> CacheGet(entry.data.path)]

\* latest is the sequence of Object.entries(latest); null is Undefined
ProcessExtensions(latestData) ==
    IF latestData = Undefined THEN <<>>
    ELSE [i \in 1..Len(latestData[1]) |-> ProcessEntry(latestData[1][i])]

(***************************************************************************)
(* Filter Engine: filterBuilds (150-184), filterExtensions (186-236)       *)
(* f is state.filters at the time of the call.                             *)
(***************************************************************************)
\* `${build.platform}|${build.platform_version}`, line 154
OsKey(build) == build.platform \o "|" \o build.platform_version

\* the filter callback of filterBuilds, lines 151-183
BuildKeptArchAgainstPhp(f, build) ==
    IF Len(f.os) > 0 /\ ~Includes(f.os, OsKey(build)) THEN FALSE
    ELSE IF Len(f.phpVersion) > 0 /\ ~Includes(f.phpVersion, build.php_version) THEN FALSE
    ELSE IF Len(f.arch) > 0 /\ ~Includes(f.phpVersion, build.arch) THEN FALSE
    ELSE IF f.status = "success" /\ build.status # "success" THEN FALSE
    ELSE IF f.status = "failure" /\ build.status # "failure" THEN FALSE
    ELSE TRUE
BuildKept(f, build) ==
    IF Len(f.os) > 0 /\ ~Includes(f.os, OsKey(build)) THEN FALSE
    ELSE IF Len(f.phpVersion) > 0 /\ ~Includes(f.phpVersion, build.php_version) THEN FALSE
    ELSE IF Len(f.arch) > 0 /\ ~Includes(f.arch, build.arch) THEN FALSE
    ELSE IF f.status = "success" /\ build.status # "success" THEN FALSE
    ELSE IF f.status = "failure" /\ build.status # "failure" THEN FALSE
    ELSE TRUE

\* builds.filter(callback): the builds the callback keeps, in order, line 151
FilterBuilds(f, builds) == SelectSeq(builds, LAMBDA build : BuildKept(f, build))

\* lines 188-192
HasDetailFilters(f) ==
    LET allOsSelected   == Len(f.os) = 0 \/ Len(f.os) = totalOsCount
        allPhpSelected  == Len(f.phpVersion) = 0 \/ Len(f.phpVersion) = totalPhpCount
        allArchSelected == Len(f.arch) = 0 \/ Len(f.arch) = totalArchCount
    IN ~(allOsSelected /\ allPhpSelected /\ allArchSelected)

\* the first filter callback, lines 195-205
NameKept(f, ext) ==
    IF f.search # <<>> /\ ~StrIncludes(ToLowerCase(ext.name), ToLowerCase(f.search))
    THEN FALSE
    ELSE IF Len(f.extension) > 0 /\ ~Includes(f.extension, ext.name) THEN FALSE
    ELSE TRUE

\* builds.filter(b => b.status === s).length, lines 223-224
CountStatus(builds, s) == Cardinality({i \in 1..Len(builds) : builds[i].status = s})

\* { ...ext, pass, fail, total, successRate, builds }, lines 223-234
Reaggregate(ext, filteredBuilds) ==
    LET pass == CountStatus(filteredBuilds, "success")
        fail == CountStatus(filteredBuilds, "failure")
    IN [ext EXCEPT !.pass = pass,
                   !.fail = fail,
                   !.total = Len(filteredBuilds),
                   !.successRate = SuccessRate(pass, Len(filteredBuilds)),
                   !.builds = Some(filteredBuilds)]

\* [ext].map(callback).filter(ext => ext !== null), lines 206-235: the
\* models one element of the list leaves in the result, none (<<>>) where
\* the callback returns null, the returned model alone (<<m>>) otherwise
MapExtKeepsEmpty(f, ext) ==
    IF ~HasDetailFilters(f)
    THEN IF f.status = "success" /\ ext.fail > 0 THEN Undefined
         ELSE IF f.status = "failure" /\ ext.fail = 0 THEN Undefined
         ELSE Some(ext)
    ELSE IF ext.builds = Undefined THEN Some(ext)
    ELSE Some(Reaggregate(ext, FilterBuilds(f, ext.builds[1])))
MapExtStatusByPass(f, ext) ==
    IF ~HasDetailFilters(f)
    THEN IF f.status = "success" /\ ext.fail > 0 THEN Undefined
         ELSE IF f.status = "failure" /\ ext.pass = 0 THEN Undefined
         ELSE Some(ext)
    ELSE IF ext.builds = Undefined THEN Some(ext)
    ELSE LET filteredBuilds == FilterBuilds(f, ext.builds[1])
         IN IF Len(filteredBuilds) = 0 THEN Undefined
            ELSE Some(Reaggregate(ext, filteredBuilds))
MapExtStatusFirst(f, ext) ==
    IF f.status = "success" /\ ext.fail > 0 THEN Undefined
    ELSE IF f.status = "failure" /\ ext.fail = 0 THEN Undefined
    ELSE IF ~HasDetailFilters(f) THEN Some(ext)
    ELSE IF ext.builds = Undefined THEN Some(ext)
    ELSE LET filteredBuilds == FilterBuilds(f, ext.builds[1])
         IN IF Len(filteredBuilds) = 0 THEN Undefined
            ELSE Some(Reaggregate(ext, filteredBuilds))
MapExt(f, ext) ==
    IF ~HasDetailFilters(f)
    THEN IF f.status = "success" /\ ext.fail > 0 THEN Undefined
         ELSE IF f.status = "failure" /\ ext.fail = 0 THEN Undefined
         ELSE Some(ext)
    ELSE IF ext.builds = Undefined THEN Some(ext)
    ELSE LET filteredBuilds == FilterBuilds(f, ext.builds[1])
         IN IF Len(filteredBuilds) = 0 THEN Undefined
            ELSE Some(Reaggregate(ext, filteredBuilds))

\* extensions.filter(...).map(...).filter(ext => ext !== null), lines 194-235
RECURSIVE FilterExtensions(_, _)
FilterExtensions(f, exts) ==
    IF exts = <<>> THEN <<>>
    ELSE LET rest == FilterExtensions(f, Tail(exts))
         IN IF ~NameKept(f, Head(exts)) THEN rest
            ELSE MapExt(f, Head(exts)) \o rest

(***************************************************************************)
(* Module load (useStore.ts 4-29, with no query string in the URL)        *)
(***************************************************************************)
DefaultFilters == [os |-> <<>>, phpVersion |-> <<>>, arch |-> <<>>,
                   extension |-> <<>>, status |-> "all", search |-> <<>>]

\* useDebounce.ts 27: let timeout = null; nothing called yet
InitDebounce ==
    /\ timeout = <<>>
    /\ wrapperCall = [n |-> 0, at |-> 0, args |-> <<>>]
    /\ fnCalls = <<>>

InitCache ==
    /\ buildCache = <<>>
    /\ loadingBuilds = {}
    /\ buildCacheVersion = 0
    /\ callPc = [c \in Calls |-> "idle"]
    /\ callPath = [c \in Calls |-> "none"]
    /\ callResult = [c \in Calls |-> <<>>]
    /\ callOutcome = [c \in Calls |-> "none"]
    /\ inFlight = PathCount
    /\ fetchCount = PathCount

InitFilters ==
    /\ filters = DefaultFilters
    /\ totalOsCount = 0
    /\ totalPhpCount = 0
    /\ totalArchCount = 0
    /\ filtersInitialized = FALSE
    /\ currentView = "list"
    /\ selectedExtension = Undefined
    /\ location = <<>>
    /\ jobs = {}

(***************************************************************************)
(* Data Loader at module load and useDataLoader() (useDataLoader.ts 4-5,   *)
(* 23-26)                                                                  *)
(***************************************************************************)
MaxInits == 2       \* initialize() calls in one session

Inits == 1..MaxInits
Resources == {"os-versions.json", "php-versions.json", "extensions.json", "latest.json"}

InitLoader ==
    /\ cache = <<>>
    /\ now = 0
    /\ metadata = Undefined
    /\ latest = Undefined
    /\ loading = TRUE
    /\ error = Undefined
    /\ initPc = [c \in Inits |-> "idle"]
    /\ fetchPc = [c \in Inits |-> [r \in Resources |-> "idle"]]
    /\ fetchData = [c \in Inits |-> [r \in Resources |-> Undefined]]
    /\ netCount = [r \in Resources |-> 0]

Init ==
    /\ InitCache
    /\ InitDebounce
    /\ InitFilters
    /\ InitLoader
    /\ extensions = <<>>
    /\ heap = NoHeap
    /\ engineRet = NoCall

(***************************************************************************)
(* Inputs of the Filter Engine runs                                        *)
(***************************************************************************)
\* The catalogs (os-versions.json, php-versions.json, extensions.json):
\* Object.entries(osVersions), Object.keys(phpVersions), architectures
Metadata ==
    [osVersions    |-> << [os |-> "alpine", versions |-> <<"3.19", "3.20">>],
                          [os |-> "debian", versions |-> <<"bookworm">>] >>,
     phpVersions   |-> <<"8.2", "8.3">>,
     architectures |-> <<"amd64", "arm64">>]

\* every `${os}|${version}` of the catalog, lines 285-292
RECURSIVE OsFilters(_)
OsFilters(osVersions) ==
    IF osVersions = <<>> THEN <<>>
    ELSE [i \in 1..Len(Head(osVersions).versions) |->
             Head(osVersions).os \o "|" \o Head(osVersions).versions[i]]
         \o OsFilters(Tail(osVersions))

AllOs   == OsFilters(Metadata.osVersions)
AllPhp  == Metadata.phpVersions
AllArch == Metadata.architectures

\* the counts initializeFilters records, lines 264-271
TotalCounts(meta) ==
    [os   |-> Len(OsFilters(meta.osVersions)),
     php  |-> Len(meta.phpVersions),
     arch |-> Len(meta.architectures)]

Build(id, platform, version, php, arch, status) ==
    [workflow_run_id |-> id, platform |-> platform, platform_version |-> version,
     php_version |-> php, arch |-> arch, status |-> status]

\* Build records; the third one is of a platform the catalog does not list
BuildPool ==
    { Build(1, "alpine", "3.19", "8.3", "amd64", "success"),
      Build(2, "debian", "bookworm", "8.2", "arm64", "failure"),
      Build(3, "ubuntu", "22.04", "8.3", "amd64", "success"),
      Build(4, "alpine", "3.19", "8.3", "amd64", "failure") }

RECURSIVE SeqsUpTo(_, _)
SeqsUpTo(S, n) ==
    IF n = 0 THEN {<<>>}
    ELSE LET shorter == SeqsUpTo(S, n - 1)
         IN shorter \cup {Append(q, x) : q \in shorter, x \in S}

\* A result file as large as a real one: 23 successes and 17 failures on
\* one platform
BulkBuilds ==
    [i \in 1..40 |-> Build(100 + i, "alpine", "3.19", "8.3", "amd64",
                           IF i <= 23 THEN "success" ELSE "failure")]

BuildLists == SeqsUpTo(BuildPool, MaxBuilds) \cup {BulkBuilds}

Str_redis == <<"r", "e", "d", "i", "s">>
Str_APCu  == <<"A", "P", "C", "u">>

\* Object.entries(latest) of latest.json
LatestEntries ==
    << [name |-> Str_redis,
        data |-> [version |-> "6.0.0", updated_at |-> "2024-01-15T10:00:00Z",
                  pass |-> 8, fail |-> 2, total |-> 10,
                  path |-> "redis/6.0.0.json"]],
       [name |-> Str_APCu,
        data |-> [version |-> "5.1.23", updated_at |-> "2024-01-14T10:00:00Z",
                  pass |-> 3, fail |-> 0, total |-> 3,
                  path |-> "apcu/5.1.23.json"]] >>

LatestInputs == {Some(SubSeq(LatestEntries, 1, n)) : n \in 1..Len(LatestEntries)}

\* What the Build Cache may hold when the engine runs
EngineCaches ==
    LET redisPath == LatestEntries[1].data.path
        apcuPath  == LatestEntries[2].data.path
        redis == {<<>>} \cup {[p \in {redisPath} |-> l] : l \in BuildLists}
        apcu  == {<<>>, [p \in {apcuPath} |-> <<Build(2, "debian", "bookworm", "8.2", "arm64", "failure")>>]}
    IN {[p \in DOMAIN r \cup DOMAIN a |-> IF p \in DOMAIN r THEN r[p] ELSE a[p]] :
           r \in redis, a \in apcu}

\* Facet selections: os as the sidebar, a shared URL or setFilter may leave it
OsSelections ==
    { <<>>, <<"alpine|3.19">>, <<"debian|bookworm">>, <<"ubuntu|22.04">>,
      <<"alpine|3.19", "debian|bookworm">>, AllOs,
      <<"alpine|3.19", "alpine|3.20", "ubuntu|22.04">> }
PhpSelections  == { <<>>, <<"8.3">>, <<"8.2", "8.3">> }
ArchSelections == { <<>>, <<"arm64">>, <<"amd64", "arm64">> }
NameSelections == { [search |-> <<>>, extension |-> <<>>],
                    [search |-> <<"c", "U">>, extension |-> <<>>],
                    [search |-> <<>>, extension |-> <<Str_redis>>] }

FilterInputs ==
    { [os |-> o, phpVersion |-> p, arch |-> a, extension |-> n.extension,
       status |-> s, search |-> n.search] :
         o \in OsSelections, p \in PhpSelections, a \in ArchSelections,
         n \in NameSelections, s \in {"all", "success", "failure"} }

\* The engine is called on the output of processExtensions, with the
\* filters in any of the states above, before or after initializeFilters
\* has recorded the total counts.
InitEngine ==
    /\ InitDebounce
    /\ buildCache \in EngineCaches
    /\ loadingBuilds = {}
    /\ buildCacheVersion = 0
    /\ callPc = [c \in Calls |-> "idle"]
    /\ callPath = [c \in Calls |-> "none"]
    /\ callResult = [c \in Calls |-> <<>>]
    /\ callOutcome = [c \in Calls |-> "none"]
    /\ inFlight = PathCount
    /\ fetchCount = PathCount
    /\ filters \in FilterInputs
    /\ \E t \in {[os |-> 0, php |-> 0, arch |-> 0], TotalCounts(Metadata)} :
          /\ totalOsCount = t.os
          /\ totalPhpCount = t.php
          /\ totalArchCount = t.arch
    /\ filtersInitialized = FALSE
    /\ currentView = "list"
    /\ selectedExtension = Undefined
    /\ location = <<>>
    /\ jobs = {}
    /\ InitLoader
    /\ extensions \in {ProcessExtensions(l) : l \in LatestInputs}
    /\ heap = NoHeap
    /\ engineRet = NoCall

\* filterExtensions(extensions) is called and returns; the list is held
\* here by value (what the call does to the objects is followed in SpecHeap)
FilterExtensionsCall ==
    /\ engineRet' = [op |-> "filterExtensions", arg |-> extensions,
                     out |-> FilterExtensions(filters, extensions)]
    /\ UNCHANGED <<cacheVars, filterVars, loaderVars, extensions, heap, debounceVars>>

\* filterBuilds(builds) is called on the builds of one view model and returns
FilterBuildsCall(i) ==
    /\ extensions[i].builds # Undefined
    /\ engineRet' = [op |-> "filterBuilds", arg |-> extensions[i].builds[1],
                     out |-> FilterBuilds(filters, extensions[i].builds[1])]
    /\ UNCHANGED <<cacheVars, filterVars, loaderVars, extensions, heap, debounceVars>>

NextEngine ==
    \/ FilterExtensionsCall
    \/ \E i \in 1..Len(extensions) : FilterBuildsCall(i)

SpecEngine == InitEngine /\ [][NextEngine]_vars

(***************************************************************************)
(* The Filter Engine on objects.  JavaScript arrays and objects are held   *)
(* by reference: the models processExtensions builds hold the very arrays  *)
(* the Build Cache holds (useStore.ts 146), and filterExtensions (186-236) *)
(* is given the array of those models.  heap.cells is the sequence of the  *)
(* arrays and objects created so far, the address of one its position: an  *)
(* array cell holds the addresses of its elements, a model cell its fields *)
(* with builds an address (or undefined), a build cell the build.          *)
(* heap.cache is buildCache as addresses, heap.extensions the address of   *)
(* the list last built by processExtensions (0: none), heap.lists the      *)
(* number of lists built, and heap.results the addresses of the lists the  *)
(* filterExtensions calls returned.                                        *)
(***************************************************************************)
MaxLists   == 2     \* processExtensions calls in one run
MaxResults == 2     \* filterExtensions calls in one run

ArrayCell(items) == [kind |-> "array", val |-> items]
ModelCell(fields) == [kind |-> "model", val |-> fields]
BuildCell(build) == [kind |-> "build", val |-> build]

\* the BuildResult[] at an address, by value
BuildsAt(cells, a) == [i \in 1..Len(cells[a].val) |-> cells[cells[a].val[i]].val]

\* the ProcessedExtension at an address, by value
ModelAt(cells, a) ==
    LET ext == cells[a].val
    IN [ext EXCEPT !.builds = IF ext.builds = Undefined THEN Undefined
                              ELSE Some(BuildsAt(cells, ext.builds[1]))]

\* the ProcessedExtension[] at an address, by value
ListAt(cells, a) == [i \in 1..Len(cells[a].val) |-> ModelAt(cells, cells[a].val[i])]

\* buildCache.value.set(path, builds), line 124, for every path of the
\* cache bc: the parsed array and its build objects
RECURSIVE StoreBuilds(_, _, _)
StoreBuilds(h, bc, paths) ==
    IF paths = <<>> THEN h
    ELSE IF Head(paths) \notin DOMAIN bc THEN StoreBuilds(h, bc, Tail(paths))
    ELSE LET p     == Head(paths)
             n     == Len(bc[p])
             base  == Len(h.cells)
             cells == h.cells \o [i \in 1..n |-> BuildCell(bc[p][i])]
                              \o <<ArrayCell([i \in 1..n |-> base + i])>>
             refs  == [q \in DOMAIN h.cache \cup {p} |->
                          IF q = p THEN base + n + 1 ELSE h.cache[q]]
         IN StoreBuilds([h EXCEPT !.cells = cells, !.cache = refs], bc, Tail(paths))

\* processExtensions(latest), lines 134-148: a new object per entry, whose
\* builds is what buildCache.value.get(data.path) returns (the cached array
\* itself, or undefined), and a new array of these objects (the last cell)
ProcessExtensionsNew(cells, refs, latestData) ==
    IF latestData = Undefined THEN Append(cells, ArrayCell(<<>>))
    ELSE LET entries == latestData[1]
             n       == Len(entries)
             base    == Len(cells)
         IN cells
            \o [i \in 1..n |->
                  ModelCell([ProcessEntry(entries[i]) EXCEPT
                                !.builds = IF entries[i].data.path \in DOMAIN refs
                                           THEN Some(refs[entries[i].data.path])
                                           ELSE Undefined])]
            \o <<ArrayCell([i \in 1..n |-> base + i])>>

\* builds.filter(callback), line 151: a new array (the last cell) of the
\* build objects the callback keeps
FilterBuildsNew(cells, f, builds) ==
    Append(cells, ArrayCell(SelectSeq(cells[builds].val,
                                      LAMBDA b : BuildKept(f, cells[b].val))))

\* return { ...ext, pass, fail, total, successRate, builds: filteredBuilds },
\* lines 226-233: a new object with the fields of ext and the five given;
\* ret is what the callback returns.  (The two arrays built to count, lines
\* 223-224, are held by nothing once counted and are not kept as cells.)
SpreadModelInPlace(cells, ext, filteredBuilds) ==
    [cells |-> [cells EXCEPT ![ext] =
                   ModelCell([Reaggregate(cells[ext].val, BuildsAt(cells, filteredBuilds))
                                 EXCEPT !.builds = Some(filteredBuilds)])],
     ret   |-> ext]
SpreadModel(cells, ext, filteredBuilds) ==
    [cells |-> Append(cells,
                   ModelCell([Reaggregate(cells[ext].val, BuildsAt(cells, filteredBuilds))
                                 EXCEPT !.builds = Some(filteredBuilds)])),
     ret   |-> Len(cells) + 1]

\* the map callback, lines 206-235, on the object at address ext: what it
\* returns (0 for null) and the cells after it
MapExtNew(cells, f, ext) ==
    LET model == cells[ext].val
    IN IF ~HasDetailFilters(f)
       THEN [cells |-> cells,
             ret   |-> IF f.status = "success" /\ model.fail > 0 THEN 0
                       ELSE IF f.status = "failure" /\ model.fail = 0 THEN 0
                       ELSE ext]
       ELSE IF model.builds = Undefined THEN [cells |-> cells, ret |-> ext]
       ELSE LET filtered       == FilterBuildsNew(cells, f, model.builds[1])
                filteredBuilds == Len(filtered)
            IN IF Len(filtered[filteredBuilds].val) = 0
               THEN [cells |-> filtered, ret |-> 0]
               ELSE SpreadModel(filtered, ext, filteredBuilds)

\* .map(callback), line 206: the callback on each element in order, and a
\* new array of what it returned
RECURSIVE MapNew(_, _, _, _)
MapNew(cells, f, items, mapped) ==
    IF items = <<>>
    THEN [cells |-> Append(cells, ArrayCell(mapped)), ret |-> Len(cells) + 1]
    ELSE LET r == MapExtNew(cells, f, Head(items))
         IN MapNew(r.cells, f, Tail(items), Append(mapped, r.ret))

\* filterExtensions(extensions), lines 186-236, on the array at address
\* list: extensions.filter(...) is a new array, .map(...) another, and
\* .filter(ext => ext !== null) the one returned
FilterExtensionsNew(cells, f, list) ==
    LET named  == Append(cells, ArrayCell(SelectSeq(cells[list].val,
                                              LAMBDA e : NameKept(f, cells[e].val))))
        mapped == MapNew(named, f, named[Len(named)].val, <<>>)
        kept   == SelectSeq(mapped.cells[mapped.ret].val, LAMBDA e : e # 0)
    IN [cells |-> Append(mapped.cells, ArrayCell(kept)), ret |-> Len(mapped.cells) + 1]

\* What the Build Cache and the filters may hold in these runs
HeapCaches == {bc \in EngineCaches : \A p \in DOMAIN bc : Len(bc[p]) <= MaxBuilds}
HeapFilters ==
    { [os |-> o, phpVersion |-> p, arch |-> <<>>, extension |-> n.extension,
       status |-> s, search |-> n.search] :
         o \in {<<>>, <<"alpine|3.19">>, AllOs}, p \in {<<>>, <<"8.3">>},
         n \in NameSelections, s \in {"all", "success", "failure"} }

\* loadBuilds calls have filled the Build Cache; nothing is computed yet
InitHeap ==
    /\ InitDebounce
    /\ buildCache \in HeapCaches
    /\ loadingBuilds = {}
    /\ buildCacheVersion = 0
    /\ callPc = [c \in Calls |-> "idle"]
    /\ callPath = [c \in Calls |-> "none"]
    /\ callResult = [c \in Calls |-> <<>>]
    /\ callOutcome = [c \in Calls |-> "none"]
    /\ inFlight = PathCount
    /\ fetchCount = PathCount
    /\ filters \in HeapFilters
    /\ \E t \in {[os |-> 0, php |-> 0, arch |-> 0], TotalCounts(Metadata)} :
          /\ totalOsCount = t.os
          /\ totalPhpCount = t.php
          /\ totalArchCount = t.arch
    /\ filtersInitialized = FALSE
    /\ currentView = "list"
    /\ selectedExtension = Undefined
    /\ location = <<>>
    /\ jobs = {}
    /\ InitLoader
    /\ extensions = <<>>
    /\ engineRet = NoCall
    /\ heap = StoreBuilds(NoHeap, buildCache,
                          [i \in 1..Len(LatestEntries) |-> LatestEntries[i].data.path])

\* processExtensions(latest) is called and returns (App.vue 29)
ProcessExtensionsOnHeap(latestData) ==
    LET cells == ProcessExtensionsNew(heap.cells, heap.cache, latestData)
    IN /\ heap.lists < MaxLists
       /\ heap' = [heap EXCEPT !.cells = cells, !.extensions = Len(cells),
                               !.lists = @ + 1]
       /\ extensions' = ListAt(cells, Len(cells))
       /\ engineRet' = [op |-> "processExtensions", arg |-> latestData,
                        out |-> ListAt(cells, Len(cells))]
       /\ UNCHANGED <<cacheVars, filterVars, loaderVars, debounceVars>>

\* filterExtensions(processed) is called on the list and returns (App.vue
\* 30); extensions is the list by value as the call leaves it
FilterExtensionsOnHeap ==
    LET r == FilterExtensionsNew(heap.cells, filters, heap.extensions)
    IN /\ heap.extensions # 0
       /\ Len(heap.results) < MaxResults
       /\ heap' = [heap EXCEPT !.cells = r.cells, !.results = Append(@, r.ret)]
       /\ extensions' = ListAt(r.cells, heap.extensions)
       /\ engineRet' = [op |-> "filterExtensions", arg |-> extensions,
                        out |-> ListAt(r.cells, r.ret)]
       /\ UNCHANGED <<cacheVars, filterVars, loaderVars, debounceVars>>

NextHeap ==
    \/ \E l \in LatestInputs : ProcessExtensionsOnHeap(l)
    \/ FilterExtensionsOnHeap

SpecHeap == InitHeap /\ [][NextHeap]_vars

Next ==
    \/ \E c \in Calls, p \in Paths : LoadBuildsCall(c, p)
    \/ \E c \in Calls : PollTimer(c)
    \/ \E c \in Calls : FetchRejects(c)
    \/ \E c \in Calls : FetchRespondsNotOk(c)
    \/ \E c \in Calls : FetchRespondsOk(c)
    \/ \E c \in Calls : JsonRejects(c)
    \/ \E c \in Calls, builds \in Responses : JsonResolves(c, builds)

Spec == Init /\ [][Next]_vars

\* Every network fetch and every body read eventually completes, one way or
\* the other, and the 50 ms timer of a waiting call keeps firing
SpecLive ==
    /\ Spec
    /\ \A c \in Calls :
          /\ WF_vars(FetchRejects(c) \/ FetchRespondsNotOk(c) \/ FetchRespondsOk(c))
          /\ WF_vars(JsonRejects(c) \/ \E builds \in Responses : JsonResolves(c, builds))
          /\ WF_vars(PollTimer(c))

(***************************************************************************)
(* Extension Projector and summary statistics: processExtensions           *)
(* (useStore.ts 134-148) and getStats (238-252) on bounded aggregates      *)
(***************************************************************************)
MaxTotal == 40      \* largest build count of one aggregate record

\* getStats(extensions), lines 238-252: the loop of lines 241-245
RECURSIVE SumStats(_, _)
SumStats(stats, exts) ==
    IF exts = <<>> THEN stats
    ELSE SumStats([stats EXCEPT !.total = @ + Head(exts).total,
                                !.pass  = @ + Head(exts).pass,
                                !.fail  = @ + Head(exts).fail], Tail(exts))

GetStats(exts) ==
    LET stats == SumStats([total |-> 0, pass |-> 0, fail |-> 0, successRate |-> 0], exts)
    IN IF stats.total > 0
       THEN [stats EXCEPT !.successRate = MathRound(Float64MulNat(Float64Div(stats.pass, stats.total), 100))]
       ELSE stats

\* One record of latest.json with the given counts
Aggregate(name, path, pass, total) ==
    [name |-> name,
     data |-> [version |-> "6.0.0", updated_at |-> "2024-01-01",
               pass |-> pass, fail |-> total - pass, total |-> total,
               path |-> path]]

\* latest.json: null, the fixture, one record of any counts up to MaxTotal,
\* or such a record followed by a second, smaller one
ProjectorInputs ==
    LET first  == {Aggregate(Str_redis, "redis/6.0.0.json", p, t) :
                      p \in 0..MaxTotal, t \in 0..MaxTotal}
        wide   == {e \in first : e.data.pass <= e.data.total}
        second == {Aggregate(Str_APCu, "apcu/5.1.23.json", 3, 3),
                   Aggregate(Str_APCu, "apcu/5.1.23.json", 3, 10),
                   Aggregate(Str_APCu, "apcu/5.1.23.json", 0, 0)}
    IN {Undefined, Some(LatestEntries)}
         \cup {Some(<<e>>) : e \in wide}
         \cup {Some(<<e, g>>) : e \in wide, g \in second}

\* processExtensions(latest.value) is called and returns (App.vue 29)
ProcessExtensionsCall ==
    /\ extensions' = ProcessExtensions(latest)
    /\ engineRet' = [op |-> "processExtensions", arg |-> latest,
                     out |-> ProcessExtensions(latest)]
    /\ UNCHANGED <<cacheVars, filterVars, loaderVars, heap, debounceVars>>

\* stats is read (App.vue 42): getStats(extensions.value), where the
\* computed extensions is filterExtensions(processExtensions(latest.value))
\* of this moment (App.vue 26-31)
GetStatsCall ==
    LET processed == ProcessExtensions(latest)
        shown     == FilterExtensions(filters, processed)
    IN /\ extensions' = processed
       /\ engineRet' = [op |-> "getStats", arg |-> shown, out |-> GetStats(shown)]
       /\ UNCHANGED <<cacheVars, filterVars, loaderVars, heap, debounceVars>>


(***************************************************************************)
(* Filter State and the URL (useStore.ts 31-104, 255-306).                 *)
(* The query text is a sequence of atoms: a separator or other special     *)
(* character is an atom of its own; an os key, a PHP version or an         *)
(* architecture, which the code only ever compares as a whole and which    *)
(* holds no separator, is one atom; names and the search text are          *)
(* sequences of one-character atoms.                                       *)
(***************************************************************************)
\* the string whose atoms are given
RECURSIVE StrOf(_)
StrOf(atoms) == IF atoms = <<>> THEN "" ELSE Head(atoms) \o StrOf(Tail(atoms))

\* the atoms of a whole string
Chars(str) == IF str = "" THEN <<>> ELSE <<str>>

\* Array.prototype.join, lines 36-39 (and the "&" of URLSearchParams.toString)
RECURSIVE Join(_, _)
Join(parts, sep) ==
    IF parts = <<>> THEN <<>>
    ELSE IF Len(parts) = 1 THEN parts[1]
    ELSE parts[1] \o <<sep>> \o Join(Tail(parts), sep)

\* String.prototype.split, lines 63-66
RECURSIVE Split(_, _)
Split(str, sep) ==
    IF \A i \in 1..Len(str) : str[i] # sep THEN <<str>>
    ELSE LET k == CHOOSE i \in 1..Len(str) :
                      str[i] = sep /\ \A j \in 1..(i - 1) : str[j] # sep
         IN <<SubSeq(str, 1, k - 1)>> \o Split(SubSeq(str, k + 1, Len(str)), sep)

\* state.filters.os.join(','), line 36, and os.split(','), line 63, on whole strings
JoinStrings(arr) == Join([i \in 1..Len(arr) |-> Chars(arr[i])], ",")
SplitStrings(str) == LET parts == Split(str, ",")
                     IN [i \in 1..Len(parts) |-> StrOf(parts[i])]

\* URLSearchParams: the application/x-www-form-urlencoded serializer and
\* parser, one atom at a time (lines 33, 44, 51)
Encode(a) ==
    CASE a = " " -> "+"
      [] a = "," -> "%2C"
      [] a = "&" -> "%26"
      [] a = "=" -> "%3D"
      [] a = "+" -> "%2B"
      [] a = "%" -> "%25"
      [] OTHER   -> a
Decode(a) ==
    CASE a = "+"   -> " "
      [] a = "%2C" -> ","
      [] a = "%26" -> "&"
      [] a = "%3D" -> "="
      [] a = "%2B" -> "+"
      [] a = "%25" -> "%"
      [] OTHER     -> a

\* params.toString(), line 44; params is the list of [key, value] set so far
ParamsToString(params) ==
    Join([i \in 1..Len(params) |->
            <<params[i].key, "=">> \o
            [j \in 1..Len(params[i].value) |-> Encode(params[i].value[j])]], "&")

\* new URLSearchParams(window.location.search), lines 51 and 276
ParseParams(query) ==
    LET segments == SelectSeq(Split(query, "&"), LAMBDA seg : seg # <<>>)
        Pair(seg) == LET parts == Split(seg, "=")
                         raw   == Join(Tail(parts), "=")
                     IN [key   |-> StrOf([j \in 1..Len(parts[1]) |-> Decode(parts[1][j])]),
                         value |-> [j \in 1..Len(raw) |-> Decode(raw[j])]]
    IN [i \in 1..Len(segments) |-> Pair(segments[i])]

\* params.has(key), line 277
ParamsHas(params, key) == \E i \in 1..Len(params) : params[i].key = key

\* params.get(key), lines 53-60: the first value of the key, or null
ParamsGet(params, key) ==
    IF ParamsHas(params, key)
    THEN LET i == CHOOSE k \in 1..Len(params) :
                      params[k].key = key /\ \A j \in 1..(k - 1) : params[j].key # key
         IN Some(params[i].value)
    ELSE Undefined

\* if (x) on a string or null, lines 35, 42, 62-66, 69
Truthy(opt) == opt # Undefined /\ opt[1] # <<>>

SyncToUrlWritesDefaults(st) ==
    LET f == st.filters
        Param(cond, key, value) == IF cond THEN <<[key |-> key, value |-> value]>> ELSE <<>>
    IN ParamsToString(
            Param(f.search # <<>>, "q", f.search)
         \o Param(Len(f.os) > 0, "os", JoinStrings(f.os))
         \o Param(Len(f.phpVersion) > 0, "php", JoinStrings(f.phpVersion))
         \o Param(Len(f.arch) > 0, "arch", JoinStrings(f.arch))
         \o Param(Len(f.extension) > 0, "ext", Join(f.extension, ","))
         \o Param(TRUE, "status", Chars(f.status))
         \o Param(TRUE, "view", Chars(st.currentView))
         \o Param(Truthy(st.selectedExtension), "detail",
                  IF st.selectedExtension = Undefined THEN <<>>
                  ELSE st.selectedExtension[1]))

\* syncToUrl(), lines 32-47: the query it writes for state st
SyncToUrl(st) ==
    LET f == st.filters
        Param(cond, key, value) == IF cond THEN <<[key |-> key, value |-> value]>> ELSE <<>>
    IN ParamsToString(
            Param(f.search # <<>>, "q", f.search)
         \o Param(Len(f.os) > 0, "os", JoinStrings(f.os))
         \o Param(Len(f.phpVersion) > 0, "php", JoinStrings(f.phpVersion))
         \o Param(Len(f.arch) > 0, "arch", JoinStrings(f.arch))
         \o Param(Len(f.extension) > 0, "ext", Join(f.extension, ","))
         \o Param(f.status # "all", "status", Chars(f.status))
         \o Param(st.currentView # "list", "view", Chars(st.currentView))
         \o Param(Truthy(st.selectedExtension), "detail",
                  IF st.selectedExtension = Undefined THEN <<>>
                  ELSE st.selectedExtension[1]))

\* status === 'success' || status === 'failure', line 67
ValidStatusAny(status) == status # "null"
ValidStatus(status) == status = "success" \/ status = "failure"

\* view === 'grid' || view === 'list', line 68
ValidView(view) == view = "grid" \/ view = "list"

\* loadFromUrl(), lines 50-70: state st after reading the query
LoadFromUrl(st, query) ==
    LET params == ParseParams(query)
        search == ParamsGet(params, "q")
        os     == ParamsGet(params, "os")
        php    == ParamsGet(params, "php")
        arch   == ParamsGet(params, "arch")
        ext    == ParamsGet(params, "ext")
        status == IF ParamsHas(params, "status")
                  THEN StrOf(ParamsGet(params, "status")[1]) ELSE "null"
        view   == IF ParamsHas(params, "view")
                  THEN StrOf(ParamsGet(params, "view")[1]) ELSE "null"
        detail == ParamsGet(params, "detail")
    IN [filters |->
          [os         |-> IF Truthy(os) THEN SplitStrings(os[1]) ELSE st.filters.os,
           phpVersion |-> IF Truthy(php) THEN SplitStrings(php[1]) ELSE st.filters.phpVersion,
           arch       |-> IF Truthy(arch) THEN SplitStrings(arch[1]) ELSE st.filters.arch,
           extension  |-> IF Truthy(ext) THEN Split(ext[1], ",") ELSE st.filters.extension,
           status     |-> IF ValidStatus(status) THEN status ELSE st.filters.status,
           search     |-> IF Truthy(search) THEN search[1] ELSE st.filters.search],
        currentView |-> IF ValidView(view) THEN view ELSE st.currentView,
        selectedExtension |-> IF Truthy(detail) THEN detail ELSE st.selectedExtension]

\* state as declared, lines 12-23
DefaultState == [filters |-> DefaultFilters, currentView |-> "list",
                 selectedExtension |-> Undefined]

\* state at this moment
State == [filters |-> filters, currentView |-> currentView,
          selectedExtension |-> selectedExtension]

\* clearFilters(), lines 87-96: the object it assigns
ClearedKeepsSearch(f) == [DefaultFilters EXCEPT !.search = f.search]
Cleared(f) == [os |-> <<>>, phpVersion |-> <<>>, arch |-> <<>>,
               extension |-> <<>>, status |-> "all", search |-> <<>>]

\* needsBuildsLoaded(), lines 255-259
NeedsBuildsLoaded(f) == Len(f.os) > 0 \/ Len(f.phpVersion) > 0 \/ Len(f.arch) > 0

\* if (filtersInitialized) return, line 274
AlreadyInitializedIgnored(flag) == FALSE
AlreadyInitialized(flag) == flag

\* hasUrlFilters, lines 276-277
HasUrlFiltersOsOnly(query) == ParamsHas(ParseParams(query), "os")
HasUrlFilters(query) ==
    LET params == ParseParams(query)
    IN ParamsHas(params, "os") \/ ParamsHas(params, "php") \/ ParamsHas(params, "arch")

\* a.localeCompare(b, undefined, { numeric: true }) on the version labels of
\* the catalogs: their place in the numeric collation order
PhpCollation(v) ==
    CASE v = "7.4"  -> 1
      [] v = "8.2"  -> 2
      [] v = "8.3"  -> 3
      [] v = "8.10" -> 4
      [] OTHER      -> 5

\* the comparator of lines 296-300
ComparePhp(a, b) ==
    IF a = "next" THEN 1
    ELSE IF b = "next" THEN 0 - 1
    ELSE PhpCollation(a) - PhpCollation(b)

\* Object.keys(metadata.phpVersions).sort(comparator), lines 296-300
RECURSIVE SortPhp(_)
SortPhp(keys) ==
    IF keys = <<>> THEN <<>>
    ELSE LET rest == SortPhp(Tail(keys))
             x    == Head(keys)
             k    == Cardinality({i \in 1..Len(rest) : ComparePhp(rest[i], x) < 0})
         IN SubSeq(rest, 1, k) \o <<x>> \o SubSeq(rest, k + 1, Len(rest))

\* A later revision of the catalogs
NewerMetadata ==
    [osVersions    |-> << [os |-> "ubuntu", versions |-> <<"22.04">>] >>,
     phpVersions   |-> <<"next", "8.10", "8.3">>,
     architectures |-> <<"amd64">>]

Catalogs == {Metadata, NewerMetadata}

\* What the page may be opened with (window.location.search)
UrlInputs ==
    { <<>>,
      <<"q", "=", "r", "e", "d", "i", "s", "&", "os", "=", "alpine|3.19", "&",
        "status", "=", "failure">>,
      <<"os", "=", "alpine|3.19", ",", "debian|bookworm", "&", "view", "=", "grid">>,
      <<"php", "=", "8.3", "&", "detail", "=", "r", "e", "d", "i", "s">>,
      <<"os", "=", "&", "status", "=", "bogus">>,
      <<"os", "=", "alpine|3.19", ",">>,
      <<"status", "=", "passed", "&", "view", "=", "table", "&", "arch", "=", "arm64",
        "&", "q", "=", "A", "P", "C">>,
      <<"ext", "=", "r", "e", "d", "i", "s", "%2C", "A", "P", "C", "u", "&",
        "q", "=", "c", "%2B", "%2B">> }

\* The module is loaded in a page opened with one of the queries:
\* loadFromUrl() on the declared state, line 73
InitStoreState(urls) ==
    /\ \E query \in urls :
          /\ location = query
          /\ jobs = {}
          /\ filters = LoadFromUrl(DefaultState, query).filters
          /\ currentView = LoadFromUrl(DefaultState, query).currentView
          /\ selectedExtension = LoadFromUrl(DefaultState, query).selectedExtension
    /\ totalOsCount = 0
    /\ totalPhpCount = 0
    /\ totalArchCount = 0
    /\ filtersInitialized = FALSE

InitStore ==
    /\ InitCache
    /\ InitDebounce
    /\ InitLoader
    /\ InitStoreState(UrlInputs)
    /\ extensions = <<>>
    /\ heap = NoHeap
    /\ engineRet = NoCall

\* The watcher of lines 76-80 has the default flush: a change of the state
\* queues its job, and the calling function returns with the address bar
\* as it was.
\* The watchers of App.vue (59-72, 75-83) exist once App is set up; its
\* onMounted hook has then called initialize(), App.vue 142-144
AppMounted == initPc[1] # "idle"

\* The job `ended` has run, if any; the sources of the URL watcher
\* (state.filters, currentView, selectedExtension) or of the builds watcher
\* (filters.os, filters.phpVersion, filters.arch, currentView, latest) were
\* assigned
Queue(ended, url, builds) ==
    /\ jobs' = (jobs \ ended) \cup (IF url THEN {"url"} ELSE {})
                               \cup (IF builds /\ AppMounted THEN {"builds"} ELSE {})
    /\ location' = location

Watch(url, builds) == Queue({}, url, builds)

\* The queued job of the watcher runs, after the code that changed the
\* state has returned: syncToUrl() of lines 32-47 on the state of that moment
SyncJob ==
    /\ "url" \in jobs
    /\ location' = SyncToUrl(State)
    /\ jobs' = jobs \ {"url"}
    /\ UNCHANGED <<cacheVars, loaderVars, filters, totalOsCount, totalPhpCount,
                   totalArchCount, filtersInitialized, currentView,
                   selectedExtension, engineVars, debounceVars>>

\* setFilter(key, value), lines 83-85; assigning an array always changes
\* the state, assigning a string only when it differs
SetFilter(key, value) ==
    /\ filters' = [filters EXCEPT ![key] = value]
    /\ engineRet' = [op |-> "setFilter", arg |-> [key |-> key, value |-> value],
                     out |-> <<>>]
    /\ UNCHANGED <<cacheVars, loaderVars, totalOsCount, totalPhpCount,
                   totalArchCount, filtersInitialized, currentView,
                   selectedExtension, extensions, heap, debounceVars>>
    /\ Watch(key \notin {"status", "search"} \/ filters[key] # value,
             key \in {"os", "phpVersion", "arch"})

\* clearFilters(), lines 87-96
ClearFilters ==
    /\ filters' = Cleared(filters)
    /\ engineRet' = [op |-> "clearFilters", arg |-> State, out |-> <<>>]
    /\ UNCHANGED <<cacheVars, loaderVars, totalOsCount, totalPhpCount,
                   totalArchCount, filtersInitialized, currentView,
                   selectedExtension, extensions, heap, debounceVars>>
    /\ Watch(TRUE, TRUE)

\* setView(view), lines 98-100
SetView(view) ==
    /\ currentView' = view
    /\ engineRet' = [op |-> "setView", arg |-> view, out |-> <<>>]
    /\ UNCHANGED <<cacheVars, loaderVars, filters, totalOsCount, totalPhpCount,
                   totalArchCount, filtersInitialized, selectedExtension, extensions, heap, debounceVars>>
    /\ Watch(currentView # view, currentView # view)

\* setSelectedExtension(name), lines 102-104
SetSelectedExtension(name) ==
    /\ selectedExtension' = name
    /\ engineRet' = [op |-> "setSelectedExtension", arg |-> name, out |-> <<>>]
    /\ UNCHANGED <<cacheVars, loaderVars, filters, totalOsCount, totalPhpCount,
                   totalArchCount, filtersInitialized, currentView, extensions, heap, debounceVars>>
    /\ Watch(selectedExtension # name, FALSE)

\* initializeFilters(metadata), lines 262-306; out records whether the call
\* found the flag unset.  `ended` is the job the call is made from, if any.
InitializeFiltersFrom(meta, ended) ==
    /\ totalOsCount' = TotalCounts(meta).os
    /\ totalPhpCount' = TotalCounts(meta).php
    /\ totalArchCount' = TotalCounts(meta).arch
    /\ engineRet' = [op |-> "initializeFilters", arg |-> meta,
                     out |-> [first |-> ~filtersInitialized]]
    /\ UNCHANGED <<cacheVars, loaderVars, currentView, selectedExtension, extensions, heap, debounceVars>>
    /\ IF AlreadyInitialized(filtersInitialized)
       THEN /\ UNCHANGED <<filters, filtersInitialized>>
            /\ Queue(ended, FALSE, FALSE)
       ELSE IF HasUrlFilters(location)
       THEN /\ filtersInitialized' = TRUE
            /\ UNCHANGED filters
            /\ Queue(ended, FALSE, FALSE)
       ELSE /\ filters' = [filters EXCEPT !.os = OsFilters(meta.osVersions),
                                          !.phpVersion = SortPhp(meta.phpVersions),
                                          !.arch = meta.architectures]
            /\ filtersInitialized' = TRUE
            /\ Queue(ended, TRUE, TRUE)

\* initializeFilters(metadata) called directly
InitializeFilters(meta) == InitializeFiltersFrom(meta, {})

(***************************************************************************)
(* Data Loader: fetchJSON (useDataLoader.ts 7-20) and initialize (47-61).  *)
(* One initialize() call runs four fetchJSON calls at once; each is split  *)
(* at its two awaits (fetch, line 13, and response.json(), line 17).  The  *)
(* continuation of initialize runs in the task of the response that        *)
(* settles its Promise.all, or, when all four files came from the cache,   *)
(* as a microtask after the code that called initialize.                   *)
(***************************************************************************)
MaxTicks == 1       \* clock steps in one session
\* const TTL = 5 * 60 * 1000, line 5
TTL == 5 * 60 * 1000

\* length of one clock step: the freshness window
TickMs == TTL

\* the clock when useDataLoader() is called: half a freshness window after
\* an earlier instance filled the module cache, if one did
StartMs == TTL \div 2

\* cached && Date.now() - cached.timestamp < TTL, lines 8-9
FreshAlways(r) == r \in DOMAIN cache
Fresh(r) == r \in DOMAIN cache /\ now - cache[r].timestamp < TTL

\* What the server answers for a resource at this moment
Served(r) == [path |-> r, served |-> now]

\* cache.set(path, { data, timestamp: Date.now() }), line 18
LoaderCacheSet(r, data) ==
    [q \in DOMAIN cache \cup {r} |->
        IF q = r THEN [data |-> data, timestamp |-> now] ELSE cache[q]]

\* loadMetadata's result, lines 35-40, from what the three fetchJSON calls
\* of call c resolved to (pcs, got: their positions and results)
Field(object, name, default) ==
    IF name \in DOMAIN object THEN object[name] ELSE default

Assemble(got) ==
    [osVersions    |-> got["os-versions.json"][1],
     phpVersions   |-> got["php-versions.json"][1],
     extensions    |-> Field(got["extensions.json"][1], "extensions", <<>>),
     architectures |-> Field(got["extensions.json"][1], "architectures", <<>>)]

\* try-block end, lines 52-54, then finally, line 59
Loaded(c, got) ==
    /\ metadata' = Some(Assemble(got))
    /\ latest' = got["latest.json"]
    /\ loading' = FALSE
    /\ initPc' = [initPc EXCEPT ![c] = "loaded"]
    /\ UNCHANGED error

\* catch, lines 55-57, then finally, line 59
CaughtKeepsLoading(c, message) ==
    /\ error' = Some(message)
    /\ initPc' = [initPc EXCEPT ![c] = "caught"]
    /\ UNCHANGED <<metadata, latest, loading>>
Caught(c, message) ==
    /\ error' = Some(message)
    /\ loading' = FALSE
    /\ initPc' = [initPc EXCEPT ![c] = "caught"]
    /\ UNCHANGED <<metadata, latest>>

\* initialize(), lines 47-52: its synchronous prefix sets loading and
\* error and starts the four fetchJSON calls, each of which answers from
\* the cache or issues a fetch; the call then waits at line 52
Initialize(c) ==
    /\ initPc[c] = "idle"
    /\ loading' = TRUE
    /\ error' = Undefined
    /\ fetchPc' = [fetchPc EXCEPT ![c] =
                     [r \in Resources |-> IF Fresh(r) THEN "done" ELSE "fetching"]]
    /\ fetchData' = [fetchData EXCEPT ![c] =
                     [r \in Resources |-> IF Fresh(r) THEN Some(cache[r].data)
                                          ELSE Undefined]]
    /\ netCount' = [r \in Resources |-> IF Fresh(r) THEN netCount[r]
                                        ELSE netCount[r] + 1]
    /\ initPc' = [initPc EXCEPT ![c] = "awaiting"]
    /\ UNCHANGED <<cacheVars, filterVars, engineVars, cache, now, metadata, latest,
                   debounceVars>>

\* The Promise.all of call c is settled with four results and its
\* continuation has not run yet: all four files came from the cache
Resumable(c) ==
    initPc[c] = "awaiting" /\ \A r \in Resources : fetchPc[c][r] = "done"

\* The continuation of such a call, lines 52-54 and 59, a microtask
InitializeResumes(c) ==
    /\ Resumable(c)
    /\ Loaded(c, fetchData[c])
    /\ UNCHANGED <<cacheVars, filterVars, engineVars, cache, now, fetchPc, fetchData,
                   netCount, debounceVars>>

\* Microtasks run before the next task: a response, a timer or the clock
\* comes after the continuations that are due
NoMicrotask == \A c \in Inits : ~Resumable(c)

\* A fetchJSON of call c fails: the first failure rejects the Promise.all
\* of line 52 and initialize goes through catch and finally
FetchJsonFails(c, r, message) ==
    /\ NoMicrotask
    /\ fetchPc' = [fetchPc EXCEPT ![c][r] = "failed"]
    /\ IF initPc[c] = "awaiting"
       THEN Caught(c, message)
       ELSE UNCHANGED <<initPc, metadata, latest, loading, error>>
    /\ UNCHANGED <<cacheVars, filterVars, engineVars, cache, now, fetchData, netCount, debounceVars>>

\* fetch() rejects, line 13
LoaderFetchRejects(c, r) ==
    /\ fetchPc[c][r] = "fetching"
    /\ FetchJsonFails(c, r, "Network error")

\* !response.ok, lines 14-16
LoaderFetchNotOk(c, r) ==
    /\ fetchPc[c][r] = "fetching"
    /\ FetchJsonFails(c, r, "Failed to load " \o r \o ": 404")

\* the response arrives and is ok, lines 13-14; fetchJSON goes on to
\* await response.json(), line 17
LoaderFetchRespondsOk(c, r) ==
    /\ NoMicrotask
    /\ fetchPc[c][r] = "fetching"
    /\ fetchPc' = [fetchPc EXCEPT ![c][r] = "parsing"]
    /\ UNCHANGED <<cacheVars, filterVars, engineVars, cache, now, metadata, latest,
                   loading, error, initPc, fetchData, netCount, debounceVars>>

\* response.json() rejects, line 17
LoaderJsonRejects(c, r) ==
    /\ fetchPc[c][r] = "parsing"
    /\ FetchJsonFails(c, r, "Unexpected token")

\* response.json() resolves, lines 17-19; when it was the last of the four
\* of a call still waiting, initialize assigns both refs, lines 53-54
LoaderJsonResolves(c, r) ==
    /\ NoMicrotask
    /\ fetchPc[c][r] = "parsing"
    /\ cache' = LoaderCacheSet(r, Served(r))
    /\ fetchPc' = [fetchPc EXCEPT ![c][r] = "done"]
    /\ fetchData' = [fetchData EXCEPT ![c][r] = Some(Served(r))]
    /\ IF initPc[c] = "awaiting" /\ \A q \in Resources : fetchPc'[c][q] = "done"
       THEN Loaded(c, fetchData'[c])
       ELSE UNCHANGED <<initPc, metadata, latest, loading, error>>
    /\ UNCHANGED <<cacheVars, filterVars, engineVars, now, netCount, debounceVars>>

\* Time passes
Tick ==
    /\ NoMicrotask
    /\ now < MaxTicks * TickMs
    /\ now' = now + TickMs
    /\ UNCHANGED <<cacheVars, filterVars, engineVars, cache, metadata, latest,
                   loading, error, initPc, fetchPc, fetchData, netCount, debounceVars>>

NextLoader ==
    \/ \E c \in Inits : Initialize(c)
    \/ \E c \in Inits : InitializeResumes(c)
    \/ \E c \in Inits, r \in Resources : LoaderFetchRespondsOk(c, r)
    \/ \E c \in Inits, r \in Resources : LoaderFetchRejects(c, r)
    \/ \E c \in Inits, r \in Resources : LoaderFetchNotOk(c, r)
    \/ \E c \in Inits, r \in Resources : LoaderJsonRejects(c, r)
    \/ \E c \in Inits, r \in Resources : LoaderJsonResolves(c, r)
    \/ Tick

\* useDataLoader() is called (lines 23-26) in a page whose module cache is
\* empty or holds what an earlier useDataLoader() instance loaded StartMs ago
LoaderCaches ==
    {<<>>, [r \in Resources |-> [data |-> [path |-> r, served |-> 0], timestamp |-> 0]]}

InitLoaderInstance ==
    /\ InitCache
    /\ InitDebounce
    /\ InitFilters
    /\ cache \in LoaderCaches
    /\ now = StartMs
    /\ metadata = Undefined
    /\ latest = Undefined
    /\ loading = TRUE
    /\ error = Undefined
    /\ initPc = [c \in Inits |-> "idle"]
    /\ fetchPc = [c \in Inits |-> [r \in Resources |-> "idle"]]
    /\ fetchData = [c \in Inits |-> [r \in Resources |-> Undefined]]
    /\ netCount = [r \in Resources |-> 0]
    /\ extensions = <<>>
    /\ heap = NoHeap
    /\ engineRet = NoCall

SpecLoader == InitLoaderInstance /\ [][NextLoader]_vars

(***************************************************************************)
(* The visible list (App.vue 26-31): filterExtensions(processExtensions(   *)
(* latest)) recomputed while loadBuilds calls come and go.                 *)
(***************************************************************************)
\* Result files the server may answer with
ViewResponses ==
    { <<>>,
      <<Build(1, "alpine", "3.19", "8.3", "amd64", "success")>>,
      <<Build(1, "alpine", "3.19", "8.3", "amd64", "success"),
        Build(2, "debian", "bookworm", "8.2", "arm64", "failure")>> }

\* Paths whose loadBuilds failed and that have no cache entry
FailedPaths ==
    {p \in Paths : /\ p \notin DOMAIN buildCache
                   /\ \E c \in Calls : callPath[c] = p /\ callOutcome[c] \in FailedOutcomes}

\* The computed `extensions` is evaluated, App.vue 26-31; failed records
\* the paths that had failed and were not cached at that moment, cached the
\* paths that had a cache entry
ExtensionsComputed ==
    /\ extensions' = ProcessExtensions(latest)
    /\ engineRet' = [op |-> "extensions", arg |-> ProcessExtensions(latest),
                     out |-> FilterExtensions(filters, ProcessExtensions(latest)),
                     failed |-> FailedPaths,
                     cached |-> DOMAIN buildCache]
    /\ UNCHANGED <<cacheVars, filterVars, loaderVars, heap, debounceVars>>

\* state.currentView === 'grid' || needsBuildsLoaded(), App.vue 64
NeedsBuildsNever(f, view) == FALSE
NeedsBuilds(f, view) == view = "grid" \/ NeedsBuildsLoaded(f)

\* Object.values(latest.value).map(ext => ext.path), App.vue 68
LatestPaths(latestData) ==
    [i \in 1..Len(latestData[1]) |-> latestData[1][i].data.path]

\* The part of the Build Cache state a loadBuilds call reads and writes
\* before its first await
CacheState ==
    [buildCache |-> buildCache, loadingBuilds |-> loadingBuilds, callPc |-> callPc,
     callPath |-> callPath, callResult |-> callResult, callOutcome |-> callOutcome,
     inFlight |-> inFlight, fetchCount |-> fetchCount, cut |-> FALSE]

IdleCalls(s) == {c \in Calls : s.callPc[c] = "idle"}

\* loadBuilds(p) up to its first await, useStore.ts 107-121, as invocation c
\* on cache state s
LoadBuildsPrefix(s, c, p) ==
    IF p \in DOMAIN s.buildCache
    THEN [s EXCEPT !.callPath[c] = p, !.callPc[c] = "done",
                   !.callResult[c] = s.buildCache[p], !.callOutcome[c] = "hit"]
    ELSE IF p \in s.loadingBuilds
    THEN [s EXCEPT !.callPath[c] = p, !.callPc[c] = "waiting",
                   !.callOutcome[c] = "waited"]
    ELSE [s EXCEPT !.callPath[c] = p, !.callPc[c] = "fetching",
                   !.loadingBuilds = @ \cup {p},
                   !.inFlight[p] = @ + 1, !.fetchCount[p] = @ + 1]

\* paths.map(path => loadBuilds(path)), App.vue 69: the calls start one
\* after the other in the same task.  The model keeps the record of MaxCalls
\* calls; a further call that finds its path cached or loading reads the
\* cache, or polls and reads it, and changes nothing; a further call that
\* would start a fetch is beyond the bound (cut).
RECURSIVE RequestBuilds(_, _)
RequestBuilds(s, paths) ==
    IF paths = <<>> THEN s
    ELSE IF IdleCalls(s) = {}
    THEN IF Head(paths) \in DOMAIN s.buildCache \/ Head(paths) \in s.loadingBuilds
         THEN RequestBuilds(s, Tail(paths))
         ELSE RequestBuilds([s EXCEPT !.cut = TRUE], Tail(paths))
    ELSE LET c == CHOOSE c \in IdleCalls(s) : \A d \in IdleCalls(s) : c <= d
         IN RequestBuilds(LoadBuildsPrefix(s, c, Head(paths)), Tail(paths))

\* The watcher of App.vue 59-72 on cache state s
BuildsWatcher(s, f, view, latestData) ==
    IF ~NeedsBuilds(f, view) \/ latestData = Undefined THEN s
    ELSE RequestBuilds(s, LatestPaths(latestData))

(***************************************************************************)
(* App.vue after its setup: initialize() of onMounted (142-144) is         *)
(* waiting for latest.json, the last of its four files.  Its continuation  *)
(* assigns metadata and latest, which queues the jobs of the metadata      *)
(* watcher (75-83) and of the builds watcher (59-72); the order in which   *)
(* queued jobs run is the scheduler's and is left open.                    *)
(***************************************************************************)
\* What the server answers for the three catalog files, as fetchJSON parses
\* them (os-versions.json, php-versions.json, extensions.json)
CatalogFiles(meta) ==
    [r \in Resources \ {"latest.json"} |->
        CASE r = "os-versions.json"  -> meta.osVersions
          [] r = "php-versions.json" -> meta.phpVersions
          [] r = "extensions.json"   ->
                [extensions |-> <<>>, architectures |-> meta.architectures]]

\* initialize() of call 1 has run up to line 52 and the three catalog files
\* have arrived, useDataLoader.ts 7-20, 28-34, 47-52
AwaitingLatest(meta) ==
    /\ cache = [r \in Resources \ {"latest.json"} |->
                   [data |-> CatalogFiles(meta)[r], timestamp |-> 0]]
    /\ now = 0
    /\ metadata = Undefined
    /\ latest = Undefined
    /\ loading = TRUE
    /\ error = Undefined
    /\ initPc = [c \in Inits |-> IF c = 1 THEN "awaiting" ELSE "idle"]
    /\ fetchPc = [c \in Inits |-> [r \in Resources |->
                     IF c # 1 THEN "idle"
                     ELSE IF r = "latest.json" THEN "fetching" ELSE "done"]]
    /\ fetchData = [c \in Inits |-> [r \in Resources |->
                     IF c = 1 /\ r # "latest.json" THEN Some(CatalogFiles(meta)[r])
                     ELSE Undefined]]
    /\ netCount = [r \in Resources |-> 1]

\* The response for latest.json arrives and is ok, useDataLoader.ts 13-14
LatestResponds == jobs = {} /\ LoaderFetchRespondsOk(1, "latest.json")

\* The body of latest.json parses to latestData, useDataLoader.ts 17-19;
\* initialize() continues: metadata.value = meta, latest.value = lat, and
\* finally loading.value = false, lines 52-54 and 59
LatestArrives(latestData) ==
    /\ initPc[1] = "awaiting"
    /\ fetchPc[1]["latest.json"] = "parsing"
    /\ \A r \in Resources \ {"latest.json"} : fetchPc[1][r] = "done"
    /\ cache' = LoaderCacheSet("latest.json", latestData)
    /\ fetchPc' = [fetchPc EXCEPT ![1]["latest.json"] = "done"]
    /\ fetchData' = [fetchData EXCEPT ![1]["latest.json"] = Some(latestData)]
    /\ Loaded(1, fetchData'[1])
    /\ jobs' = jobs \cup {"metadata", "builds"}
    /\ engineRet' = [op |-> "initialize", arg |-> Some(latestData), out |-> <<>>]
    /\ UNCHANGED <<cacheVars, filters, totalOsCount, totalPhpCount, totalArchCount,
                   filtersInitialized, currentView, selectedExtension, location,
                   extensions, heap, now, netCount, debounceVars>>

\* The job of the metadata watcher, App.vue 75-83
MetadataJob ==
    /\ "metadata" \in jobs
    /\ metadata # Undefined
    /\ InitializeFiltersFrom(metadata[1], {"metadata"})

\* The job of the builds watcher, App.vue 59-72: the loadBuilds calls run
\* up to their first await
BuildsJob ==
    /\ "builds" \in jobs
    /\ LET after == BuildsWatcher(CacheState, filters, currentView, latest)
       IN /\ ~after.cut
          /\ loadingBuilds' = after.loadingBuilds
          /\ callPc' = after.callPc
          /\ callPath' = after.callPath
          /\ callResult' = after.callResult
          /\ callOutcome' = after.callOutcome
          /\ inFlight' = after.inFlight
          /\ fetchCount' = after.fetchCount
    /\ jobs' = jobs \ {"builds"}
    /\ UNCHANGED <<buildCache, buildCacheVersion, filters, totalOsCount,
                   totalPhpCount, totalArchCount, filtersInitialized, currentView,
                   selectedExtension, location, engineVars, loaderVars,
                   debounceVars>>

\* The page was opened with one of these query strings
ViewUrls == { <<>>, <<"os", "=", "alpine|3.19">> }

InitView ==
    /\ InitCache
    /\ InitDebounce
    /\ AwaitingLatest(Metadata)
    /\ InitStoreState(ViewUrls)
    /\ extensions = <<>>
    /\ heap = NoHeap
    /\ engineRet = NoCall

\* loadBuilds is also called when the detail of an extension of the list
\* is opened (DetailModal.vue): a click, with latest loaded and no job
\* queued
NextView ==
    \/ LatestResponds
    \/ LatestArrives(LatestEntries)
    \/ MetadataJob
    \/ BuildsJob
    \/ SyncJob
    \/ \E c \in Calls, p \in Paths :
          jobs = {} /\ latest # Undefined /\ LoadBuildsCall(c, p)
    \/ \E c \in Calls : PollTimer(c)
    \/ \E c \in Calls : FetchRejects(c)
    \/ \E c \in Calls : FetchRespondsNotOk(c)
    \/ \E c \in Calls : FetchRespondsOk(c)
    \/ \E c \in Calls : JsonRejects(c)
    \/ \E c \in Calls, builds \in ViewResponses : JsonResolves(c, builds)
    \/ ExtensionsComputed

SpecView == InitView /\ [][NextView]_vars

(***************************************************************************)
(* processExtensions and getStats on what latest.json may hold             *)
(***************************************************************************)
\* What the page is opened with in these runs
ProjectorUrls == {<<>>, <<"status", "=", "failure">>}

InitProjector ==
    /\ InitCache
    /\ InitDebounce
    /\ AwaitingLatest(Metadata)
    /\ InitStoreState(ProjectorUrls)
    /\ extensions = <<>>
    /\ heap = NoHeap
    /\ engineRet = NoCall

NextProjector ==
    \/ LatestResponds
    \/ \E l \in ProjectorInputs \ {Undefined} : LatestArrives(l[1])
    \/ MetadataJob
    \/ BuildsJob
    \/ SyncJob
    \/ ProcessExtensionsCall
    \/ GetStatsCall

SpecProjector == InitProjector /\ [][NextProjector]_vars

(***************************************************************************)
(* The debounced search (useDebounce.ts 23-37, App.vue 54-57, 116-124)     *)
(***************************************************************************)
MaxTyped   == 3     \* updates of the search box in one session
MaxElapsed == 7     \* clock steps in one session

\* useDebounce(..., 150), App.vue line 57
Delay == 150
\* the clock advances in thirds of the delay
ClockStep == Delay \div 3

\* What the user leaves in the search box
SearchTexts == << <<"r">>, <<"r", "e">>, <<>> >>

\* setTimeout(callback, delay): the callback runs no earlier than delay
\* after the call, useDebounce.ts 33-35
DueAtOnce(timer) == TRUE
Due(timer) == now >= timer.due

\* The search box emits update:filters { search: text }; handleFiltersUpdate
\* passes it to debouncedSetFilter('search', text), App.vue 116-124; the
\* wrapper clears the pending timer, if any, and sets a new one,
\* useDebounce.ts 28-35
DebouncedSetFilter(text) ==
    /\ jobs = {}
    /\ wrapperCall.n < MaxTyped
    /\ now + Delay <= MaxElapsed * ClockStep
    /\ timeout' = Some([args |-> text, due |-> now + Delay])
    /\ wrapperCall' = [n |-> wrapperCall.n + 1, at |-> now, args |-> text]
    /\ engineRet' = [op |-> "debouncedSetFilter", arg |-> text, out |-> <<>>]
    /\ UNCHANGED <<cacheVars, filterVars, loaderVars, extensions, heap, fnCalls>>

\* The timer callback, useDebounce.ts 33-35: fn(...args), which is
\* setFilter('search', text), App.vue 54-57, useStore.ts 83-85
TimerFires ==
    /\ jobs = {}
    /\ timeout # Undefined
    /\ Due(timeout[1])
    /\ filters' = [filters EXCEPT !.search = timeout[1].args]
    /\ fnCalls' = Append(fnCalls, [args |-> timeout[1].args, at |-> now,
                                   call |-> wrapperCall.n])
    /\ timeout' = Undefined
    /\ engineRet' = [op |-> "setFilter",
                     arg |-> [key |-> "search", value |-> timeout[1].args],
                     out |-> <<>>]
    /\ UNCHANGED <<cacheVars, loaderVars, totalOsCount, totalPhpCount,
                   totalArchCount, filtersInitialized, currentView,
                   selectedExtension, extensions, heap, wrapperCall>>
    /\ Watch(filters.search # timeout[1].args, FALSE)

\* Time passes
TimePasses ==
    /\ now < MaxElapsed * ClockStep
    /\ now' = now + ClockStep
    /\ UNCHANGED <<cacheVars, filterVars, engineVars, cache, metadata, latest,
                   loading, error, initPc, fetchPc, fetchData, netCount,
                   debounceVars>>

\* App is set up in a page opened with one of the queries and waits for
\* latest.json
InitSearch ==
    /\ InitCache
    /\ InitDebounce
    /\ AwaitingLatest(Metadata)
    /\ InitStoreState(UrlInputs)
    /\ extensions = <<>>
    /\ heap = NoHeap
    /\ engineRet = NoCall

\* Clear All is @clear-filters="clearFilters", App.vue 209, 221.  An input
\* event, a click and a timer callback are tasks: each starts with no job
\* queued.
NextDebounce ==
    \/ \E i \in 1..Len(SearchTexts) : DebouncedSetFilter(SearchTexts[i])
    \/ TimerFires
    \/ jobs = {} /\ ClearFilters
    \/ SyncJob
    \/ BuildsJob
    \/ TimePasses

SpecDebounce == InitSearch /\ [][NextDebounce]_vars

\* Queued jobs run, the event loop runs a timer callback that is due
\* however often other tasks come in between, and time passes
SpecDebounceLive ==
    /\ SpecDebounce
    /\ WF_vars(SyncJob) /\ WF_vars(BuildsJob)
    /\ SF_vars(TimerFires) /\ WF_vars(TimePasses)

(***************************************************************************)
(* Filter Sidebar (FilterSidebar.vue): the checkbox handlers               *)
(* toggleArrayFilter (108-132) and toggleOsGroup (146-176).  Each emits     *)
(* update:filters, which App's handleFiltersUpdate (App.vue 116-124) passes *)
(* to setFilter; the URL watcher and the builds watcher run after it.       *)
(***************************************************************************)
\* Array.prototype.sort() without comparator on the version labels of the
\* catalogs: their place in code-unit order
CodeUnitOrder(v) ==
    CASE v = "7.4"  -> 1
      [] v = "8.10" -> 2
      [] v = "8.2"  -> 3
      [] v = "8.3"  -> 4
      [] OTHER      -> 5

\* Object.keys(props.metadata.phpVersions).sort(), line 48
RECURSIVE SortKeys(_)
SortKeys(keys) ==
    IF keys = <<>> THEN <<>>
    ELSE LET rest == SortKeys(Tail(keys))
             x    == Head(keys)
             k    == Cardinality({i \in 1..Len(rest) :
                                    CodeUnitOrder(rest[i]) <= CodeUnitOrder(x)})
         IN SubSeq(rest, 1, k) \o <<x>> \o SubSeq(rest, k + 1, Len(rest))

\* the UTF-16 code unit of a letter
CharCode(ch) ==
    IF \E k \in 1..Len(UpperCase) : UpperCase[k] = ch
    THEN 64 + (CHOOSE k \in 1..Len(UpperCase) : UpperCase[k] = ch)
    ELSE IF \E k \in 1..Len(LowerCase) : LowerCase[k] = ch
    THEN 96 + (CHOOSE k \in 1..Len(LowerCase) : LowerCase[k] = ch)
    ELSE 0

\* a < b in the default sort order of strings
RECURSIVE NameBefore(_, _)
NameBefore(a, b) ==
    IF b = <<>> THEN FALSE
    ELSE IF a = <<>> THEN TRUE
    ELSE IF CharCode(Head(a)) # CharCode(Head(b)) THEN CharCode(Head(a)) < CharCode(Head(b))
    ELSE NameBefore(Tail(a), Tail(b))

\* Object.keys(props.latest).sort(), lines 63-64
RECURSIVE SortNames(_)
SortNames(names) ==
    IF names = <<>> THEN <<>>
    ELSE LET rest == SortNames(Tail(names))
             x    == Head(names)
             k    == Cardinality({i \in 1..Len(rest) : ~NameBefore(x, rest[i])})
         IN SubSeq(rest, 1, k) \o <<x>> \o SubSeq(rest, k + 1, Len(rest))

\* getAllValues(key), lines 98-106, over osOptions, phpOptions, archOptions
\* and extOptions, lines 28-69
GetAllValues(key) ==
    CASE key = "os" ->
           IF metadata = Undefined THEN <<>> ELSE OsFilters(metadata[1].osVersions)
      [] key = "phpVersion" ->
           IF metadata = Undefined THEN <<>> ELSE SortKeys(metadata[1].phpVersions)
      [] key = "arch" ->
           IF metadata = Undefined THEN <<>> ELSE metadata[1].architectures
      [] key = "extension" ->
           IF latest = Undefined THEN <<>>
           ELSE SortNames([i \in 1..Len(latest[1]) |-> latest[1][i].name])

\* isSelected(key, value), lines 93-96
IsSelected(current, value) == Len(current) = 0 \/ Includes(current, value)

\* what toggleArrayFilter(key, value) emits for key, lines 108-132
ToggleArrayFilterEmits(current, allValues, value) ==
    IF Len(current) = 0
    THEN SelectSeq(allValues, LAMBDA v : v # value)
    ELSE IF Includes(current, value)
    THEN LET newValues == SelectSeq(current, LAMBDA v : v # value)
         IN IF Len(newValues) = 0 THEN <<>> ELSE newValues
    ELSE LET newValues == Append(current, value)
         IN IF Len(newValues) = Len(allValues) THEN <<>> ELSE newValues

\* getOsVersionValues(os), lines 135-137
GetOsVersionValues(os) ==
    LET groups == IF metadata = Undefined THEN <<>> ELSE metadata[1].osVersions
    IN OsFilters(SelectSeq(groups, LAMBDA g : g.os = os))

\* isOsSelected(os), lines 140-143
IsOsSelected(os) ==
    \A i \in 1..Len(GetOsVersionValues(os)) :
        IsSelected(filters.os, GetOsVersionValues(os)[i])

\* [...new Set(values)]: the first occurrence of each value, line 167
RECURSIVE Unique(_)
Unique(values) ==
    IF values = <<>> THEN <<>>
    ELSE LET init == Unique(SubSeq(values, 1, Len(values) - 1))
             last == values[Len(values)]
         IN IF Includes(init, last) THEN init ELSE Append(init, last)

\* what toggleOsGroup(os) emits for os, lines 146-176
ToggleOsGroupEmits(current, allValues, osVersions, selected) ==
    IF selected
    THEN IF Len(current) = 0
         THEN SelectSeq(allValues, LAMBDA v : ~Includes(osVersions, v))
         ELSE LET newValues == SelectSeq(current, LAMBDA v : ~Includes(osVersions, v))
              IN IF Len(newValues) = 0 THEN <<>> ELSE newValues
    ELSE IF Len(current) = 0
         THEN <<>>
         ELSE LET newValues == Unique(current \o osVersions)
              IN IF Len(newValues) = Len(allValues) THEN <<>> ELSE newValues

\* emit('update:filters', { [key]: emitted }) -> handleFiltersUpdate ->
\* setFilter(key, emitted), App.vue 116-124, useStore.ts 83-85.  A click is
\* a task: it starts with no job queued.
Emit(op, key, arg, emitted) ==
    /\ jobs = {}
    /\ filters' = [filters EXCEPT ![key] = emitted]
    /\ engineRet' = [op |-> op, arg |-> arg, out |-> emitted]
    /\ UNCHANGED <<cacheVars, totalOsCount, totalPhpCount, totalArchCount,
                   filtersInitialized, currentView, selectedExtension,
                   extensions, heap, loaderVars, debounceVars>>
    /\ Watch(TRUE, key \in {"os", "phpVersion", "arch"})

\* a checkbox of an option is clicked, lines 257, 289, 320, 351
ToggleArrayFilter(key, value) ==
    /\ Includes(GetAllValues(key), value)
    /\ Emit("toggleArrayFilter", key,
            [key |-> key, value |-> value, current |-> filters[key],
             allValues |-> GetAllValues(key)],
            ToggleArrayFilterEmits(filters[key], GetAllValues(key), value))

\* the checkbox of an os group is clicked, line 244
ToggleOsGroup(os) ==
    /\ metadata # Undefined
    /\ \E i \in 1..Len(metadata[1].osVersions) : metadata[1].osVersions[i].os = os
    /\ Emit("toggleOsGroup", "os",
            [key |-> "os", value |-> os, current |-> filters.os,
             allValues |-> GetAllValues("os")],
            ToggleOsGroupEmits(filters.os, GetAllValues("os"),
                               GetOsVersionValues(os), IsOsSelected(os)))

\* Facet selections of the queries the page may be opened with (a shared
\* URL may name any value)
SidebarFilters ==
    { [DefaultFilters EXCEPT !.os = o, !.phpVersion = p, !.arch = a, !.extension = e] :
         o \in OsSelections, p \in PhpSelections, a \in ArchSelections,
         e \in {<<>>, <<Str_redis>>} }

\* App is set up in a page opened with the query of one of the
\* selections and waits for latest.json
InitSidebar ==
    /\ InitCache
    /\ InitDebounce
    /\ \E meta \in Catalogs : AwaitingLatest(meta)
    /\ InitStoreState({SyncToUrl([DefaultState EXCEPT !.filters = f]) :
                            f \in SidebarFilters})
    /\ extensions = <<>>
    /\ heap = NoHeap
    /\ engineRet = NoCall

SidebarClicks ==
    << [key |-> "os", value |-> "alpine|3.19"],
       [key |-> "os", value |-> "alpine|3.20"],
       [key |-> "os", value |-> "debian|bookworm"],
       [key |-> "os", value |-> "ubuntu|22.04"],
       [key |-> "phpVersion", value |-> "8.2"],
       [key |-> "phpVersion", value |-> "8.3"],
       [key |-> "phpVersion", value |-> "8.10"],
       [key |-> "phpVersion", value |-> "next"],
       [key |-> "arch", value |-> "amd64"],
       [key |-> "arch", value |-> "arm64"],
       [key |-> "extension", value |-> Str_redis],
       [key |-> "extension", value |-> Str_APCu] >>

NextSidebar ==
    \/ LatestResponds
    \/ \E l \in LatestInputs : LatestArrives(l[1])
    \/ MetadataJob
    \/ BuildsJob
    \/ SyncJob
    \/ \E i \in 1..Len(SidebarClicks) :
          ToggleArrayFilter(SidebarClicks[i].key, SidebarClicks[i].value)
    \/ \E os \in {"alpine", "debian", "ubuntu"} : ToggleOsGroup(os)

SpecSidebar == InitSidebar /\ [][NextSidebar]_vars

(***************************************************************************)
(* The Filter State runs: the store's operations as the components call    *)
(* them                                                                    *)
(***************************************************************************)
\* getAllValues(key) of a sidebar whose metadata prop is meta, FilterSidebar
\* lines 28-60, 98-106
OptionValues(meta, key) ==
    CASE key = "os"         -> OsFilters(meta.osVersions)
      [] key = "phpVersion" -> SortKeys(meta.phpVersions)
      [] key = "arch"       -> meta.architectures

\* The checkboxes clicked in the Filter State runs
StoreClicks ==
    << [key |-> "os", value |-> "alpine|3.19"],
       [key |-> "phpVersion", value |-> "8.3"] >>

\* The catalog the sidebar shows: the one the metadata watcher has passed
\* to initializeFilters (App.vue 75-83, 204, 216); before that the sidebar
\* has no checkbox
ShownCatalogs ==
    {meta \in Catalogs :
        /\ filtersInitialized
        /\ TotalCounts(meta) = [os |-> totalOsCount, php |-> totalPhpCount,
                                arch |-> totalArchCount]}

\* What a click on one of the checkboxes passes to setFilter: the array
\* toggleArrayFilter derives from the selection of this moment, FilterSidebar
\* 108-132, App.vue 116-124
ClickedInputs(meta) ==
    LET shown == SelectSeq(StoreClicks,
                           LAMBDA c : Includes(OptionValues(meta, c.key), c.value))
    IN [i \in 1..Len(shown) |->
           [key   |-> shown[i].key,
            value |-> ToggleArrayFilterEmits(filters[shown[i].key],
                                             OptionValues(meta, shown[i].key),
                                             shown[i].value)]]

\* What reaches setFilter in the state of this moment: from the sidebar's
\* checkboxes, and from the status select, the search box and direct callers
SetFilterInputs ==
    (IF ShownCatalogs = {} THEN <<>>
     ELSE ClickedInputs(CHOOSE meta \in ShownCatalogs : TRUE))
    \o
    << [key |-> "os", value |-> <<>>],
       [key |-> "os", value |-> <<"alpine|3.19">>],
       [key |-> "os", value |-> <<"alpine|3.19", "debian|bookworm">>],
       [key |-> "phpVersion", value |-> <<"8.3">>],
       [key |-> "arch", value |-> <<"arm64">>],
       [key |-> "extension", value |-> <<Str_redis>>],
       [key |-> "status", value |-> "all"],
       [key |-> "status", value |-> "failure"],
       [key |-> "search", value |-> <<>>],
       [key |-> "search", value |-> <<"c", "+", "+">>] >>

\* setFilter, clearFilters, setView and setSelectedExtension are called
\* from event handlers (App.vue 116-124, 209, 221), which start with no job
\* queued; initializeFilters is called from the metadata watcher (App.vue
\* 75-83), itself a job, before or after the job of the URL watcher
NextStore ==
    \/ \E i \in 1..Len(SetFilterInputs) :
          jobs = {} /\ SetFilter(SetFilterInputs[i].key, SetFilterInputs[i].value)
    \/ jobs = {} /\ ClearFilters
    \/ \E view \in {"grid", "list"} : jobs = {} /\ SetView(view)
    \/ \E name \in {Undefined, Some(Str_redis)} : jobs = {} /\ SetSelectedExtension(name)
    \/ \E meta \in Catalogs : InitializeFilters(meta)
    \/ SyncJob

SpecStore == InitStore /\ [][NextStore]_vars

(***************************************************************************)
(* Build Cache properties (checked under Spec)                             *)
(***************************************************************************)
\* The loadBuilds invocations made so far for path p
CallsOn(p) == {c \in Calls : callPc[c] # "idle" /\ callPath[c] = p}

\* C1: in every interleaving of loadBuilds calls at most one network fetch
\* per path is in flight at any time.
C1_OneFetchInFlightPerPath == \A p \in Paths : inFlight[p] <= 1

\* C1 witness: fetches for two different paths overlap while a further call
\* for one of them waits instead of fetching.
C1_Witness ==
    \E p, q \in Paths :
        /\ p # q /\ inFlight[p] = 1 /\ inFlight[q] = 1
        /\ \E c \in Calls : callPc[c] = "waiting" /\ callPath[c] = p

\* C2: when loadBuilds is called twice for one uncached path and the second
\* call starts while the first call's fetch is in flight, exactly one fetch
\* is issued for the path and both calls resolve to the same record list.
C2_TwoCallsOneFetchSameResult ==
    \A p \in Paths : \A c1, c2 \in Calls :
        (c1 # c2 /\ CallsOn(p) = {c1, c2} /\ callOutcome[c2] = "waited")
            => /\ fetchCount[p] = 1
               /\ (callPc[c1] = "done" /\ callPc[c2] = "done")
                      => callResult[c1] = callResult[c2]

\* C2 witness: the first call fetched a non-empty list, the second waited for
\* it, and both have resolved.
C2_Witness ==
    \E p \in Paths : \E c1, c2 \in Calls :
        /\ c1 # c2 /\ CallsOn(p) = {c1, c2}
        /\ callOutcome[c1] = "fetched" /\ callResult[c1] # <<>>
        /\ callOutcome[c2] = "waited" /\ callPc[c2] = "done"

\* C3: a failed fetch makes loadBuilds return [], adds no cache entry and
\* leaves no pending entry for the path; a later loadBuilds for the path
\* issues a new fetch, and caches its records if that fetch succeeds.
C3_FailureNotCached ==
    [][\A c \in Calls :
        /\ (callPc[c] \in {"fetching", "parsing"} /\ callPc'[c] = "done"
              /\ callOutcome'[c] \in FailedOutcomes)
            => /\ callResult'[c] = <<>>
               /\ buildCache' = buildCache
               /\ callPath[c] \notin DOMAIN buildCache'
               /\ callPath[c] \notin loadingBuilds'
        /\ (callPc[c] = "idle" /\ callPc'[c] # "idle"
              /\ callPath'[c] \notin DOMAIN buildCache
              /\ callPath'[c] \notin loadingBuilds
              /\ \E d \in Calls : callOutcome[d] \in FailedOutcomes
                                   /\ callPath[d] = callPath'[c])
            => /\ callPc'[c] = "fetching"
               /\ fetchCount'[callPath'[c]] = fetchCount[callPath'[c]] + 1
        /\ (callPc[c] = "parsing" /\ callOutcome'[c] = "fetched")
            => /\ callPath[c] \in DOMAIN buildCache'
               /\ buildCache'[callPath[c]] = callResult'[c]
      ]_vars

\* C3 witness: a fetch for a path failed, a later call fetched the path again
\* and its records are now cached.
C3_Witness ==
    \E c1, c2 \in Calls :
        /\ callOutcome[c1] \in FailedOutcomes /\ callResult[c1] = <<>>
        /\ callOutcome[c2] = "fetched" /\ callPath[c2] = callPath[c1]
        /\ fetchCount[callPath[c1]] = 2
        /\ callPath[c1] \in DOMAIN buildCache
        /\ buildCache[callPath[c1]] = callResult[c2]
        /\ callResult[c2] # <<>>

\* C4: once records are stored for a path the entry stays, with the same
\* records, and every later loadBuilds(path) returns them without a fetch.
C4_CacheEntriesPermanent ==
    [][/\ \A p \in DOMAIN buildCache :
            p \in DOMAIN buildCache' /\ buildCache'[p] = buildCache[p]
       /\ \A c \in Calls :
            (callPc[c] = "idle" /\ callPc'[c] # "idle"
              /\ callPath'[c] \in DOMAIN buildCache)
            => /\ callPc'[c] = "done"
               /\ callResult'[c] = buildCache[callPath'[c]]
               /\ fetchCount' = fetchCount
               /\ inFlight' = inFlight
      ]_vars

\* C4 witness: a call found its path cached and returned the stored records,
\* after exactly one fetch for that path.
C4_Witness ==
    \E c1, c2 \in Calls :
        /\ callOutcome[c1] = "fetched" /\ callResult[c1] # <<>>
        /\ callOutcome[c2] = "hit" /\ callPath[c2] = callPath[c1]
        /\ callResult[c2] = callResult[c1]
        /\ fetchCount[callPath[c1]] = 1

(***************************************************************************)
(* Filter Engine properties (checked under SpecEngine)                     *)
(***************************************************************************)
Elems(arr) == {arr[i] : i \in 1..Len(arr)}

\* A build passes the four facet tests as the specification words them
FacetsAdmit(build) ==
    /\ (filters.os = <<>>
          \/ (build.platform \o "|" \o build.platform_version) \in Elems(filters.os))
    /\ (filters.phpVersion = <<>> \/ build.php_version \in Elems(filters.phpVersion))
    /\ (filters.arch = <<>> \/ build.arch \in Elems(filters.arch))
    /\ (filters.status = "all" \/ filters.status = build.status)

Survivors(builds) == SelectSeq(builds, FacetsAdmit)

\* The engine took the build-level path: its own hasDetailFilters, computed
\* from the selections and the recorded total counts
DetailFilterEffective == HasDetailFilters(filters)

Returned(op) == engineRet.op = op

TotalsRecorded ==
    /\ totalOsCount = TotalCounts(Metadata).os
    /\ totalPhpCount = TotalCounts(Metadata).php
    /\ totalArchCount = TotalCounts(Metadata).arch

\* C5: sentinel equivalence.  With the catalog's counts recorded, for every
\* list of view models and every value of the other facets, filterExtensions
\* returns the same with os = [] as with os = every known os|version pair,
\* and likewise for phpVersion and arch.
C5_SentinelEquivalence ==
    TotalsRecorded =>
        /\ FilterExtensions([filters EXCEPT !.os = <<>>], extensions)
             = FilterExtensions([filters EXCEPT !.os = AllOs], extensions)
        /\ FilterExtensions([filters EXCEPT !.phpVersion = <<>>], extensions)
             = FilterExtensions([filters EXCEPT !.phpVersion = AllPhp], extensions)
        /\ FilterExtensions([filters EXCEPT !.arch = <<>>], extensions)
             = FilterExtensions([filters EXCEPT !.arch = AllArch], extensions)

\* C6: under an effective detail filter, a model with builds attached of
\* which at least one survives is returned with builds = the survivors,
\* total = their number, pass / fail = the numbers of surviving successes /
\* failures, successRate = round(100 * pass / total), the rest unchanged.
C6_Reaggregated ==
    (Returned("filterExtensions") /\ DetailFilterEffective) =>
        \A i \in 1..Len(engineRet.arg) :
            LET ext  == engineRet.arg[i]
                surv == Survivors(ext.builds[1])
                pass == Cardinality({k \in 1..Len(surv) : surv[k].status = "success"})
                fail == Cardinality({k \in 1..Len(surv) : surv[k].status = "failure"})
            IN (NameKept(filters, ext) /\ ext.builds # Undefined /\ surv # <<>>) =>
                   \E j \in 1..Len(engineRet.out) :
                       engineRet.out[j] =
                           [ext EXCEPT !.builds = Some(surv),
                                       !.total = Len(surv),
                                       !.pass = pass,
                                       !.fail = fail,
                                       !.successRate =
                                           (200 * pass + Len(surv)) \div (2 * Len(surv))]

\* C7: under an effective detail filter, a model with builds attached none
\* of which survives is absent from the result, and no returned model that
\* had builds attached has total = 0.
C7_EmptyDropped ==
    (Returned("filterExtensions") /\ DetailFilterEffective) =>
        \A i \in 1..Len(engineRet.arg) :
            LET ext == engineRet.arg[i]
            IN ext.builds # Undefined =>
                /\ Survivors(ext.builds[1]) = <<>>
                     => ~ \E j \in 1..Len(engineRet.out) :
                              engineRet.out[j].name = ext.name
                /\ \A j \in 1..Len(engineRet.out) :
                       engineRet.out[j].name = ext.name => engineRet.out[j].total # 0

\* C7 witness: a model that passes the name predicates has builds attached,
\* none survives, and another model of the same list is returned.
C7_Witness ==
    /\ Returned("filterExtensions") /\ DetailFilterEffective
    /\ Len(engineRet.out) >= 1
    /\ \E i \in 1..Len(engineRet.arg) :
          /\ NameKept(filters, engineRet.arg[i])
          /\ engineRet.arg[i].builds # Undefined
          /\ engineRet.arg[i].builds[1] # <<>>
          /\ Survivors(engineRet.arg[i].builds[1]) = <<>>

\* the aggregate-level status test
CoarseDropped(ext) ==
    \/ filters.status = "success" /\ ext.fail > 0
    \/ filters.status = "failure" /\ ext.fail = 0

CoarseKept(ext) == NameKept(filters, ext) /\ ~CoarseDropped(ext)

\* C8: with no detail filter effective, a model that passed the name-level
\* predicates is dropped iff (status = success and fail > 0) or (status =
\* failure and fail = 0), and every kept model is returned as it came in.
C8_CoarseStatusFilter ==
    (Returned("filterExtensions") /\ ~DetailFilterEffective) =>
        engineRet.out = SelectSeq(engineRet.arg, CoarseKept)

\* C8 witness: status = failure, a full os selection counted as "all"; the
\* model with failures is returned with its builds and aggregate counts, the
\* one without failures is dropped.
C8_Witness ==
    /\ Returned("filterExtensions") /\ ~DetailFilterEffective
    /\ filters.status = "failure" /\ filters.os = AllOs
    /\ Len(engineRet.arg) = 2
    /\ engineRet.arg[1].builds # Undefined
    /\ engineRet.out = <<engineRet.arg[1]>>

\* C9: under an effective detail filter, a model with no builds attached
\* that passes the name-level predicates is returned unchanged, whatever the
\* status filter.
C9_UnloadedPassedThrough ==
    (Returned("filterExtensions") /\ DetailFilterEffective) =>
        \A i \in 1..Len(engineRet.arg) :
            (engineRet.arg[i].builds = Undefined /\ NameKept(filters, engineRet.arg[i]))
                => \E j \in 1..Len(engineRet.out) : engineRet.out[j] = engineRet.arg[i]

\* C9 witness: status = success and a model with failures but no builds
\* attached is returned as it came in.
C9_Witness ==
    /\ Returned("filterExtensions") /\ DetailFilterEffective
    /\ filters.status = "success"
    /\ \E i \in 1..Len(engineRet.arg) :
          /\ engineRet.arg[i].builds = Undefined
          /\ engineRet.arg[i].fail > 0
          /\ \E j \in 1..Len(engineRet.out) : engineRet.out[j] = engineRet.arg[i]

\* C10: filterBuilds keeps a build iff every facet admits it (os, phpVersion,
\* arch: the facet is [] or holds the build's value; status: 'all' or the
\* build's status); the result keeps the input order and holds nothing else.
C10_FilterBuildsKeepsAdmitted ==
    Returned("filterBuilds") => engineRet.out = Survivors(engineRet.arg)

\* C10 witness: all four facets are set, and filterBuilds keeps some builds
\* of its argument and drops others.
C10_Witness ==
    /\ Returned("filterBuilds")
    /\ filters.os # <<>> /\ filters.phpVersion # <<>> /\ filters.arch # <<>>
    /\ filters.status # "all"
    /\ engineRet.out # <<>>
    /\ Len(engineRet.out) < Len(engineRet.arg)

(***************************************************************************)
(* Projector and statistics properties (checked under SpecProjector)       *)
(***************************************************************************)
\* round(100*pass/total), ties half away from zero, in exact arithmetic
RoundedPercent(pass, total) == (200 * pass + total) \div (2 * total)

\* C11: every record processExtensions returns has successRate = 0 when
\* its total is 0, and otherwise successRate = round(100*pass/total), an
\* integer in 0..100.
C11_SuccessRateRounded ==
    engineRet.op = "processExtensions" =>
        \A i \in 1..Len(engineRet.out) :
            LET ext == engineRet.out[i]
            IN IF ext.total = 0 THEN ext.successRate = 0
               ELSE /\ ext.successRate = RoundedPercent(ext.pass, ext.total)
                    /\ ext.successRate \in 0..100

\* C12: getStats returns the sums of total, pass and fail over the given
\* models, successRate = round(100*pass/total) of the sums when the summed
\* total is positive and 0 otherwise; all four are 0 for the empty list.
C12_StatsSummed ==
    engineRet.op = "getStats" =>
        LET exts == engineRet.arg
            Sum(field) == SumStats([total |-> 0, pass |-> 0, fail |-> 0,
                                    successRate |-> 0], exts)[field]
            out == engineRet.out
        IN /\ out.total = Sum("total")
           /\ out.pass = Sum("pass")
           /\ out.fail = Sum("fail")
           /\ out.successRate = IF out.total > 0
                                THEN RoundedPercent(out.pass, out.total) ELSE 0
           /\ exts = <<>> =>
                out = [total |-> 0, pass |-> 0, fail |-> 0, successRate |-> 0]

(***************************************************************************)
(* Filter State properties (checked under SpecStore)                       *)
(***************************************************************************)
\* C13: URL round trip. Serializing any reachable state (filters,
\* currentView, selectedExtension) with syncToUrl and parsing that query
\* with loadFromUrl from the declared default state gives the state back.
\* (A state that differs from it in a facet selection admits other builds:
\* the one difference that occurs is a selection holding only the empty
\* string, which admits no build, read back as the empty selection, which
\* admits all.)
C13_UrlRoundTrip == LoadFromUrl(DefaultState, SyncToUrl(State)) = State

\* The selection differs from the facet's full set of known values
\* (the empty array stands for the full set)
NotAll(selection, known) == selection # <<>> /\ Elems(selection) # Elems(known)

\* C14: right after initializeFilters(metadata) has returned,
\* needsBuildsLoaded() is true iff the os, phpVersion or arch selection is a
\* proper subset of the values the catalogs list for that facet.
C14_NeedsBuildsIffProperSubset ==
    engineRet.op = "initializeFilters" =>
        (NeedsBuildsLoaded(filters) <=>
            \/ NotAll(filters.os, OsFilters(engineRet.arg.osVersions))
            \/ NotAll(filters.phpVersion, engineRet.arg.phpVersions)
            \/ NotAll(filters.arch, engineRet.arg.architectures))

\* C15: every clearFilters() call leaves os, phpVersion, arch and extension
\* empty, status 'all' and search '', leaves currentView and
\* selectedExtension as they were, and needsBuildsLoaded() is false in the
\* state it leaves.
C15_ClearFilters ==
    [][ engineRet'.op = "clearFilters" =>
          /\ filters'.os = <<>>
          /\ filters'.phpVersion = <<>>
          /\ filters'.arch = <<>>
          /\ filters'.extension = <<>>
          /\ filters'.status = "all"
          /\ filters'.search = <<>>
          /\ currentView' = currentView
          /\ selectedExtension' = selectedExtension
          /\ ~NeedsBuildsLoaded(filters') ]_vars

\* C15 witness: clearFilters() has run on a state with every facet, the
\* status and the search set, in grid view with a detail open, after
\* initializeFilters; view and detail are still there.
C15_Witness ==
    /\ engineRet.op = "clearFilters"
    /\ engineRet.arg.filters.os # <<>>
    /\ engineRet.arg.filters.phpVersion # <<>>
    /\ engineRet.arg.filters.arch # <<>>
    /\ engineRet.arg.filters.extension # <<>>
    /\ engineRet.arg.filters.status = "failure"
    /\ engineRet.arg.filters.search # <<>>
    /\ filtersInitialized
    /\ filters = DefaultFilters
    /\ currentView = "grid"
    /\ selectedExtension = Some(Str_redis)

\* C16: on the first initializeFilters(metadata) call, if the URL holds
\* none of the keys os, php, arch, then os, phpVersion and arch become the
\* full enumerations of the catalogs (each value once); if it holds any of
\* the three, all three facets stay as they were.
C16_FirstInitialization ==
    [][ (engineRet'.op = "initializeFilters" /\ ~filtersInitialized) =>
          LET meta == engineRet'.arg
              keys == {ParseParams(location)[i].key :
                          i \in 1..Len(ParseParams(location))}
          IN IF keys \cap {"os", "php", "arch"} = {}
             THEN /\ Elems(filters'.os) =
                       UNION {{meta.osVersions[i].os \o "|" \o meta.osVersions[i].versions[j] :
                                  j \in 1..Len(meta.osVersions[i].versions)} :
                              i \in 1..Len(meta.osVersions)}
                  /\ Len(filters'.os) = Cardinality(Elems(filters'.os))
                  /\ Elems(filters'.phpVersion) = Elems(meta.phpVersions)
                  /\ Len(filters'.phpVersion) = Len(meta.phpVersions)
                  /\ filters'.arch = meta.architectures
             ELSE /\ filters'.os = filters.os
                  /\ filters'.phpVersion = filters.phpVersion
                  /\ filters'.arch = filters.arch ]_vars

\* C16 witness: the first call found no filter key in the URL and filled
\* the three facets from a catalog whose PHP versions had to be sorted.
C16_Witness ==
    /\ engineRet.op = "initializeFilters"
    /\ engineRet.out.first
    /\ engineRet.arg = NewerMetadata
    /\ filters.os = <<"ubuntu|22.04">>
    /\ filters.phpVersion = <<"8.3", "8.10", "next">>
    /\ filters.arch = <<"amd64">>
    /\ filters.search # <<>>

\* C17: once a call of initializeFilters has returned, the flag stays set
\* and no later call changes state.filters, whatever happened in between
\* and whichever catalog it is given.
C17_InitializedOnce ==
    [][ /\ filtersInitialized => filtersInitialized'
        /\ (engineRet'.op = "initializeFilters" /\ filtersInitialized) =>
              filters' = filters ]_vars

\* C17 witness: a later call, made with another catalog after clearFilters
\* had emptied the facets, refreshed the counts and left the facets empty
\* although the URL held no filter key.
C17_Witness ==
    /\ engineRet.op = "initializeFilters"
    /\ ~engineRet.out.first
    /\ engineRet.arg = NewerMetadata
    /\ filtersInitialized
    /\ filters = DefaultFilters
    /\ ~HasUrlFilters(location)
    /\ totalOsCount = 1 /\ totalPhpCount = 3 /\ totalArchCount = 1

(***************************************************************************)
(* Data Loader properties (checked under SpecLoader)                       *)
(***************************************************************************)
\* The initialize() calls whose fetchJSON for r is waiting for the network
Fetching(r) == {c \in Inits : fetchPc[c][r] \in {"fetching", "parsing"}}

\* C18: a request for a resource made less than 5 minutes after its last
\* successful fetch makes no network call; once the entry has expired, an
\* access fetches the resource only if no fetch of it is already on its way
\* (one re-fetch per expiry, however the initialize() calls interleave); and
\* the cache changes only by a successful response.
C18_FreshnessWindow ==
    [][ \A r \in Resources :
          /\ Fresh(r) => netCount'[r] = netCount[r]
          /\ (r \in DOMAIN cache /\ ~Fresh(r) /\ netCount'[r] > netCount[r]) =>
                /\ netCount'[r] = netCount[r] + 1
                /\ Fetching(r) = {}
          /\ (r \in DOMAIN cache' /\ (r \notin DOMAIN cache \/ cache'[r] # cache[r])) =>
                \E c \in Inits : /\ fetchPc[c][r] = "parsing"
                                 /\ fetchPc'[c][r] = "done"
                                 /\ cache'[r].data = fetchData'[c][r][1] ]_vars

\* C19: when a fetch of an initialize() call that is still waiting fails,
\* the call completes with error set, loading false and metadata and latest
\* as they were; and metadata or latest change only by being assigned
\* together from the four results of one call whose fetches all succeeded.
C19_NoPartialCatalog ==
    [][ /\ \A c \in Inits :
             (initPc[c] = "awaiting" /\
              \E r \in Resources : fetchPc[c][r] # "failed" /\ fetchPc'[c][r] = "failed") =>
                /\ initPc'[c] = "caught"
                /\ error' # Undefined
                /\ loading' = FALSE
                /\ metadata' = metadata
                /\ latest' = latest
        /\ (metadata' # metadata \/ latest' # latest) =>
             \E c \in Inits :
                /\ initPc[c] # "loaded" /\ initPc'[c] = "loaded"
                /\ \A r \in Resources : fetchPc'[c][r] = "done"
                /\ metadata' # Undefined
                /\ metadata'[1].osVersions = fetchData'[c]["os-versions.json"][1]
                /\ metadata'[1].phpVersions = fetchData'[c]["php-versions.json"][1]
                /\ metadata'[1].extensions =
                      Field(fetchData'[c]["extensions.json"][1], "extensions", <<>>)
                /\ metadata'[1].architectures =
                      Field(fetchData'[c]["extensions.json"][1], "architectures", <<>>)
                /\ latest' = fetchData'[c]["latest.json"] ]_vars

\* C19 witness: one call has loaded a full snapshot; a later call, started
\* after the entries had expired, failed on one resource while others of
\* its fetches had succeeded; error is set, loading is false and metadata
\* and latest are still the snapshot of the first call.
C19_Witness ==
    \E c, d \in Inits :
        /\ initPc[c] = "loaded"
        /\ initPc[d] = "caught"
        /\ \E r, q \in Resources : fetchPc[d][r] = "failed" /\ fetchPc[d][q] = "done"
                                   /\ fetchData[d][q] # fetchData[c][q]
        /\ error # Undefined
        /\ loading = FALSE
        /\ metadata # Undefined
        /\ metadata[1].osVersions = fetchData[c]["os-versions.json"][1]
        /\ metadata[1].phpVersions = fetchData[c]["php-versions.json"][1]
        /\ metadata[1].extensions =
              Field(fetchData[c]["extensions.json"][1], "extensions", <<>>)
        /\ latest = fetchData[c]["latest.json"]

(***************************************************************************)
(* Visible-list properties (checked under SpecView)                        *)
(***************************************************************************)
\* C20: in every evaluation of the visible list, an extension whose build
\* fetch had failed and whose path had no cache entry is absent from the
\* result while a detail filter is active, and is in the result with its
\* aggregate record when none is.
C20_FailedLoadExcluded ==
    engineRet.op = "extensions" =>
        \A i \in 1..Len(engineRet.arg) :
            LET ext == engineRet.arg[i]
            IN ext.path \in engineRet.failed =>
                 IF HasDetailFilters(filters)
                 THEN \A j \in 1..Len(engineRet.out) : engineRet.out[j].name # ext.name
                 ELSE \E j \in 1..Len(engineRet.out) : engineRet.out[j] = ext

\* C21: in the state the module load leaves, a status parameter that is
\* neither 'success' nor 'failure' has left status at 'all', a view
\* parameter that is neither 'grid' nor 'list' has left currentView at
\* 'list', and every other parameter of the same URL with a non-empty value
\* has been applied.
C21_MalformedEnumIgnored ==
    engineRet.op = "none" =>
        LET params == ParseParams(location)
            Value(key) == ParamsGet(params, key)
            Text(key) == IF ParamsHas(params, key) THEN StrOf(Value(key)[1]) ELSE "null"
        IN /\ Text("status") \notin {"success", "failure"} => filters.status = "all"
           /\ Text("status") \in {"success", "failure"} => filters.status = Text("status")
           /\ Text("view") \notin {"grid", "list"} => currentView = "list"
           /\ Text("view") \in {"grid", "list"} => currentView = Text("view")
           /\ Truthy(Value("q")) => filters.search = Value("q")[1]
           /\ Truthy(Value("os")) => filters.os = SplitStrings(Value("os")[1])
           /\ Truthy(Value("php")) => filters.phpVersion = SplitStrings(Value("php")[1])
           /\ Truthy(Value("arch")) => filters.arch = SplitStrings(Value("arch")[1])
           /\ Truthy(Value("ext")) => filters.extension = Split(Value("ext")[1], ",")
           /\ Truthy(Value("detail")) => selectedExtension = Value("detail")

\* C21 witness: the page was opened with an unknown status, an unknown view,
\* an architecture and a search text; the two enums are at their defaults
\* and the other two parameters are in the state.
C21_Witness ==
    /\ engineRet.op = "none"
    /\ ParamsGet(ParseParams(location), "status") = Some(<<"passed">>)
    /\ ParamsGet(ParseParams(location), "view") = Some(<<"table">>)
    /\ filters.status = "all"
    /\ currentView = "list"
    /\ filters.arch = <<"arm64">>
    /\ filters.search = <<"A", "P", "C">>

\* C23: filterExtensions returns for every filter state, recorded counts and
\* list of models; a call changes neither the filter state and the recorded
\* counts, nor which arrays the Build Cache holds, nor any array or object
\* that existed when it was called (the list it was given, its models,
\* their builds arrays, the builds); what it returns is, by value, a
\* function of the filter state, the counts and the models given; and a
\* call repeated on the same state and list returns an equal list.
C23_FilterExtensionsPure ==
    [][ heap'.results # heap.results =>
          /\ filters' = filters
          /\ <<totalOsCount, totalPhpCount, totalArchCount>>'
               = <<totalOsCount, totalPhpCount, totalArchCount>>
          /\ heap'.cache = heap.cache
          /\ heap'.extensions = heap.extensions
          /\ \A a \in 1..Len(heap.cells) : heap'.cells[a] = heap.cells[a]
          /\ extensions' = extensions
          /\ engineRet'.out = FilterExtensions(filters, extensions)
          /\ (engineRet.op = "filterExtensions" /\ engineRet'.arg = engineRet.arg) =>
                engineRet'.out = engineRet.out ]_vars

\* C23 witness: under an effective detail filter two calls have returned
\* two arrays that are equal by value; the second holds a re-aggregated
\* model, a new object, while the model given still has its aggregate
\* counts and still holds the array the Build Cache holds for its path.
C23_Witness ==
    /\ Len(heap.results) = 2
    /\ heap.results[1] # heap.results[2]
    /\ ListAt(heap.cells, heap.results[1]) = ListAt(heap.cells, heap.results[2])
    /\ DetailFilterEffective
    /\ LET given    == heap.cells[heap.extensions].val
           returned == heap.cells[heap.results[2]].val
       IN \E i \in 1..Len(given) : \E j \in 1..Len(returned) :
             /\ returned[j] # given[i]
             /\ heap.cells[returned[j]].val.name = heap.cells[given[i]].val.name
             /\ heap.cells[given[i]].val.builds
                   = Some(heap.cache[heap.cells[given[i]].val.path])
             /\ heap.cells[returned[j]].val.builds # heap.cells[given[i]].val.builds
             /\ heap.cells[returned[j]].val.total # heap.cells[given[i]].val.total
             /\ heap.cells[given[i]].val.total = extensions[i].total

\* A selection that lacks at least one value the catalog lists
\* (the empty array stands for every value)
MissesKnown(selection, known) ==
    selection # <<>> /\ \E v \in Elems(known) : v \notin Elems(selection)

\* C24: with the catalog's counts recorded, filterExtensions takes the
\* build-level path iff the os, phpVersion or arch selection lacks a value
\* the catalog lists for that facet; [] and a selection holding every known
\* value never take it.
C24_DetailIffProperSubset ==
    (Returned("filterExtensions") /\ TotalsRecorded) =>
        (HasDetailFilters(filters) <=>
            \/ MissesKnown(filters.os, AllOs)
            \/ MissesKnown(filters.phpVersion, AllPhp)
            \/ MissesKnown(filters.arch, AllArch))

\* The query holds key exactly when present is true, and then with value
KeyIs(params, key, present, value) ==
    /\ ParamsHas(params, key) <=> present
    /\ present => ParamsGet(params, key) = Some(value)

\* The query is the serialization of state st: each of q, os, php, arch,
\* ext, status, view, detail is present exactly when its field differs from
\* the default, array facets are joined with commas, and there is no other
\* parameter
Serializes(query, st) ==
    LET params == ParseParams(query)
        f == st.filters
        detail == IF st.selectedExtension = Undefined THEN <<>>
                  ELSE st.selectedExtension[1]
        present == {k \in {"q", "os", "php", "arch", "ext", "status", "view", "detail"} :
                        ParamsHas(params, k)}
    IN /\ KeyIs(params, "q", f.search # <<>>, f.search)
       /\ KeyIs(params, "os", f.os # <<>>, JoinStrings(f.os))
       /\ KeyIs(params, "php", f.phpVersion # <<>>, JoinStrings(f.phpVersion))
       /\ KeyIs(params, "arch", f.arch # <<>>, JoinStrings(f.arch))
       /\ KeyIs(params, "ext", f.extension # <<>>, Join(f.extension, ","))
       /\ KeyIs(params, "status", f.status # "all", Chars(f.status))
       /\ KeyIs(params, "view", st.currentView # "list", Chars(st.currentView))
       /\ KeyIs(params, "detail", st.selectedExtension # Undefined, detail)
       /\ Len(params) = Cardinality(present)

\* C25: whenever setFilter, clearFilters, setView or setSelectedExtension
\* has changed the state, the job of the watcher is queued, and whenever
\* that job has run, the query string it leaves is the serialization of the
\* state of that moment.
C25_UrlFollowsState ==
    [][/\ (/\ engineRet'.op \in {"setFilter", "clearFilters", "setView",
                                  "setSelectedExtension"}
            /\ State' # State)
           => "url" \in jobs'
       /\ ("url" \in jobs /\ "url" \notin jobs')
           => Serializes(location', State')]_vars

\* C25 witness: a setFilter has returned and the job of the watcher has run;
\* the state holds a two-value os selection and a status next to defaults,
\* and the query is os=a%2Cb&status=failure.
C25_Witness ==
    /\ engineRet.op = "setFilter"
    /\ jobs = {}
    /\ filters.os = <<"alpine|3.19", "debian|bookworm">>
    /\ filters.status = "failure"
    /\ filters.search = <<>> /\ currentView = "list"
    /\ location = <<"os", "=", "alpine|3.19", "%2C", "debian|bookworm",
                    "&", "status", "=", "failure">>

\* C22: the wrapped function is invoked only by the timer of the most
\* recent call of the wrapper, with that call's arguments, no earlier than
\* the delay of 150 ms after that call and at most once for it; the search
\* text of the Filter State changes only by such an invocation or by
\* clearFilters; and a pending timer is eventually no longer pending, so
\* the last call of a burst is invoked.
C22_Debounced ==
    /\ [][/\ fnCalls' # fnCalls =>
               LET new == fnCalls'[Len(fnCalls')]
               IN /\ fnCalls' = Append(fnCalls, new)
                  /\ new.call = wrapperCall.n
                  /\ new.args = wrapperCall.args
                  /\ new.at >= wrapperCall.at + 150
                  /\ \A i \in 1..Len(fnCalls) : fnCalls[i].call # new.call
                  /\ filters'.search = new.args
          /\ filters'.search # filters.search =>
               fnCalls' # fnCalls \/ engineRet'.op = "clearFilters"]_vars
    /\ (timeout # Undefined) ~> (timeout = Undefined)

\* C22 witness: two updates of the search box less than 150 ms apart, and
\* one invocation, for the second, whose text is in the Filter State.
C22_Witness ==
    /\ wrapperCall.n = 2
    /\ wrapperCall.at < Delay
    /\ wrapperCall.args = <<"r", "e">>
    /\ Len(fnCalls) = 1
    /\ fnCalls[1].call = 2
    /\ filters.search = <<"r", "e">>

\* C28: while clearFilters is the last thing the user did (no update of the
\* search box since), the search text stays ''.
C28_SearchStaysCleared ==
    [][engineRet.op = "clearFilters" => filters'.search = <<>>]_vars

\* C30: a path is pending only while a fetch for it is in flight, and every
\* loadBuilds call that has started eventually returns, given that every
\* fetch eventually completes.
C30_LoadBuildsReturns ==
    /\ [](\A p \in loadingBuilds : inFlight[p] >= 1)
    /\ \A c \in Calls : (callPc[c] # "idle") ~> (callPc[c] = "done")

\* C30 witness: a call that polled on a pending path has returned after the
\* fetch it waited for failed, and the path is no longer pending.
C30_Witness ==
    \E c1, c2 \in Calls :
        /\ c1 # c2 /\ callPath[c1] = callPath[c2]
        /\ callPc[c1] = "done" /\ callOutcome[c1] \in FailedOutcomes
        /\ callPc[c2] = "done" /\ callOutcome[c2] = "waited"
        /\ callResult[c2] = <<>>
        /\ callPath[c1] \notin loadingBuilds
        /\ inFlight[callPath[c1]] = 0

\* C26: the arrival of latest queues the job of the builds watcher; when
\* that job runs under an effective detail filter with latest loaded, a
\* loadBuilds call is started for every extension path; and in every
\* evaluation of the visible list under an effective detail filter with
\* every path fetched, each visible extension carries its surviving builds
\* and the counts recomputed from them.
C26_SnapsToExact ==
    /\ [][/\ (latest = Undefined /\ latest' # Undefined) => "builds" \in jobs'
          /\ ("builds" \in jobs /\ "builds" \notin jobs'
               /\ latest # Undefined /\ HasDetailFilters(filters)) =>
                \A i \in 1..Len(latest[1]) :
                    \E c \in Calls : /\ callPc[c] = "idle" /\ callPc'[c] # "idle"
                                     /\ callPath'[c] = latest[1][i].data.path]_vars
    /\ [](engineRet.op = "extensions" /\ HasDetailFilters(filters) /\ latest # Undefined
          /\ (\A i \in 1..Len(latest[1]) : latest[1][i].data.path \in engineRet.cached)
          => \A j \in 1..Len(engineRet.out) :
                LET ext == engineRet.out[j]
                    surv == Survivors(buildCache[ext.path])
                IN /\ surv # <<>>
                   /\ ext.builds = Some(surv)
                   /\ ext.total = Len(surv)
                   /\ ext.pass = Cardinality({k \in 1..Len(surv) : surv[k].status = "success"})
                   /\ ext.fail = Cardinality({k \in 1..Len(surv) : surv[k].status = "failure"}))

\* C26 witness: the page was opened with os=alpine|3.19; the watcher started
\* a call per path, both fetches succeeded, and the list shows redis with
\* the one surviving build counted, not its aggregate of 10.
C26_Witness ==
    /\ engineRet.op = "extensions" /\ HasDetailFilters(filters)
    /\ engineRet.cached = Paths
    /\ \A p \in Paths : \E c \in Calls : callPath[c] = p /\ callOutcome[c] = "fetched"
    /\ Len(engineRet.out) >= 1
    /\ engineRet.out[1].name = Str_redis
    /\ engineRet.out[1].total = 1
    /\ engineRet.arg[1].total = 10

(***************************************************************************)
(* Filter Sidebar properties (checked under SpecSidebar)                   *)
(***************************************************************************)
\* C27: the array a checkbox handler emits never holds every value the
\* sidebar lists for the facet; the full set is emitted as [].
C27_NeverEmitsFullSet ==
    engineRet.op \in {"toggleArrayFilter", "toggleOsGroup"} =>
        ~(engineRet.out # <<>> /\ Elems(engineRet.arg.allValues) \subseteq Elems(engineRet.out))

\* C29: toggleArrayFilter(key, value) emits a selection under which value
\* is selected iff it was not before, and every other value the sidebar
\* lists for the facet is selected iff it was before.
C29_ToggleInvertsOne ==
    engineRet.op = "toggleArrayFilter" =>
        LET arg == engineRet.arg
        IN /\ IsSelected(engineRet.out, arg.value) # IsSelected(arg.current, arg.value)
           /\ \A v \in Elems(arg.allValues) \ {arg.value} :
                 IsSelected(engineRet.out, v) = IsSelected(arg.current, v)

====
